---- MODULE Spec2Model ----
(***************************************************************************)
(* Verification model of the document image pipeline of eVoteSecurely:     *)
(*   utils/imageAutoCrop.ts        (src/unnamed/part_000)                  *)
(*   utils/imageQualityAnalysis.ts (src/unnamed/part_001)                  *)
(*   utils/imagePreprocessing.ts   (src/utils/imagePreprocessing.ts)       *)
(*                                                                         *)
(* Each operation of the pipeline is a call on its own buffers, so every   *)
(* operation has its own specification (SpecCrop, SpecThreshold, ...) over *)
(* its own variables; the variables of the other operations stay Idle.     *)
(*                                                                         *)
(* Numbers.  JavaScript numbers are modelled by exact arithmetic: integers *)
(* where the code's values are integers, reduced fractions [n, d] where    *)
(* they are not.  Math.sqrt is modelled to a stated resolution (Sqrt).     *)
(* TLC's integers are 32 bit and TLC stops with an error on overflow, so   *)
(* a finished run never rests on a wrapped value.                          *)
(***************************************************************************)
EXTENDS Integers, Sequences, FiniteSets, TLC

VARIABLES
    ocrPc,        \* preprocessImageForOCR: the timer, the stage to run next, or settled
    ocrIn,        \* preprocessImageForOCR: imageData, options, the environment
    ocrLocal,     \* that callback: the buffers of the stages that have returned
    ocrStages,    \* that callback: the stages started, in order
    ocrOut,       \* that promise: its settlements, in order
    iiIn,         \* integral image of a large picture: width, height, level, column x
    iiY,          \* that loop: the row y it is to fill next
    iiStored,     \* that loop: integralImage[(y - 1) * width + x], in two halves
    frCall,       \* a call of a core operation: its name and its arguments as passed
    frHeap,       \* the objects of that call as they are now: the caller's arguments and what the call allocated
    frLocal,      \* applyCLAHE in that call: the local cdfMaps
    frRet,        \* which object that call returned
    boxIn,        \* findBoundingBox: edgeData, width, height
    boxOut,       \* findBoundingBox: the returned box or null
    ptPc,         \* applyPerspectiveTransform: position of the image callbacks
    ptIn,         \* applyPerspectiveTransform: sourcePoints, the decoded image, the environment's answers
    ptLocal,      \* applyPerspectiveTransform: the locals outputWidth, outputHeight, A, b, h and the loop position
    ptDest,       \* applyPerspectiveTransform: destData
    ptOut,        \* applyPerspectiveTransform: the calls of resolve and reject, in order
    solPc,        \* solve: position in the function
    solIn,        \* solve: the matrix A and the vector b as passed
    solHeap,      \* solve: the caller's objects A and b as they are now
    solLocal,     \* solve: the pivot row chosen at each column
    solOut,       \* solve: what it returned
    claheIn,      \* applyCLAHE: grayscale, width, height, options
    claheLocal,   \* applyCLAHE: the local cdfMaps
    claheOut,     \* applyCLAHE: the returned buffer and which object it is
    sobIn,        \* sobel: grayscale, width, height
    sobLocal,     \* sobel: the squared magnitudes and their maximum
    sobOut,       \* sobel: the returned edgeData
    shIn,         \* the sharpness score: two Laplacian variances and a gradient mean
    shOut,        \* the sharpness score: the two scores, unrounded and as reported
    qIn,          \* analyzeImageQuality: imageData and options
    qLocal,       \* analyzeImageQuality: the locals (raw metrics, flags, unrounded scores, tips)
    qOut,         \* analyzeImageQuality: the ImageQualityReport returned
    cropPc,       \* suggestCrop: position of the async executor
    cropIn,       \* suggestCrop: the ImageData size and the environment's answers
    cropEdges,    \* suggestCrop: the edge map handed to findBoundingBox
    cropLocal,    \* suggestCrop: the locals box (as detected) and finalCrop
    cropOut,      \* suggestCrop: what the promise resolved with
    thrIn,        \* applyAdaptiveThresholding: grayscale, width, height, blockSize, C
    thrOut        \* applyAdaptiveThresholding: the returned buffer

cropVars == <<cropPc, cropIn, cropEdges, cropLocal, cropOut>>
thrVars == <<thrIn, thrOut>>
qVars == <<qIn, qLocal, qOut>>
shVars == <<shIn, shOut>>
sobVars == <<sobIn, sobLocal, sobOut>>
claheVars == <<claheIn, claheLocal, claheOut>>
solVars == <<solPc, solIn, solHeap, solLocal, solOut>>
ptVars == <<ptPc, ptIn, ptLocal, ptDest, ptOut>>
boxVars == <<boxIn, boxOut>>
frVars == <<frCall, frHeap, frLocal, frRet>>
iiVars == <<iiIn, iiY, iiStored>>
ocrVars == <<ocrPc, ocrIn, ocrLocal, ocrStages, ocrOut>>
vars == <<cropVars, thrVars, qVars, shVars, sobVars, claheVars, solVars, ptVars, boxVars, frVars, iiVars, ocrVars>>

\* Values that stand for "not a result": records, so that they compare with
\* the records the operations return.
Idle == [idle |-> TRUE]
Null == [null |-> TRUE]
Pending == [pending |-> TRUE]

(***************************************************************************)
(* Generic helpers                                                         *)
(***************************************************************************)
Min(a, b) == IF a <= b THEN a ELSE b
Max(a, b) == IF a >= b THEN a ELSE b
Abs(a) == IF a < 0 THEN -a ELSE a

\* sum of f[i] for i in lo..hi, as a for loop accumulates it
RECURSIVE Sum(_, _, _)
Sum(f, lo, hi) == IF lo > hi THEN 0 ELSE f[hi] + Sum(f, lo, hi - 1)

(***************************************************************************)
(* Exact fractions.  A real number of the code is a record [n, d] with     *)
(* d > 0 and gcd(n, d) = 1.  The arithmetic is that of the reals: the      *)
(* rounding error of a double (about 1e-13 on these values) is left out,   *)
(* and only Math.sqrt of a non-square is cut, to the resolution given.     *)
(***************************************************************************)
RECURSIVE GCD(_, _)
GCD(a, b) == IF b = 0 THEN a ELSE GCD(b, a % b)

Frac(n, d) ==
    LET g == GCD(Abs(n), Abs(d))
        sgn == IF d < 0 THEN -1 ELSE 1
    IN  [n |-> (sgn * n) \div g, d |-> (sgn * d) \div g]

RInt(k) == [n |-> k, d |-> 1]
RNeg(a) == [n |-> -a.n, d |-> a.d]
RAdd(a, b) ==
    LET g == GCD(a.d, b.d)
    IN  Frac(a.n * (b.d \div g) + b.n * (a.d \div g), (a.d \div g) * b.d)
RSub(a, b) == RAdd(a, RNeg(b))
RMul(a, b) ==
    LET g1 == GCD(Abs(a.n), b.d)
        g2 == GCD(Abs(b.n), a.d)
    IN  [n |-> (a.n \div g1) * (b.n \div g2), d |-> (a.d \div g2) * (b.d \div g1)]
RDiv(a, b) == RMul(a, Frac(b.d, b.n))
RSquare(a) == [n |-> a.n * a.n, d |-> a.d * a.d]
RLess(a, b) ==
    LET g == GCD(a.d, b.d) IN a.n * (b.d \div g) < b.n * (a.d \div g)
RMin(a, b) == IF RLess(b, a) THEN b ELSE a
RMax(a, b) == IF RLess(a, b) THEN b ELSE a
RAbs(a) == [n |-> Abs(a.n), d |-> a.d]
RFloor(a) == a.n \div a.d

\* floor(a * k) for a >= 0 and an integer k > 0, by long division
FloorTimes(a, k) == (a.n \div a.d) * k + ((a.n % a.d) * k) \div a.d

\* the integer square root: the greatest s with s * s <= n, by bisection
\* (46340 is the greatest integer whose square is below 2^31)
RECURSIVE ISqrtIn(_, _, _)
ISqrtIn(n, lo, hi) ==
    IF lo >= hi THEN lo
    ELSE LET mid == (lo + hi + 1) \div 2
         IN  IF mid * mid <= n THEN ISqrtIn(n, mid, hi) ELSE ISqrtIn(n, lo, mid - 1)
ISqrt(n) == ISqrtIn(n, 0, 46340)

\* Math.sqrt(a) for a >= 0: exact when a is the square of a fraction, else cut
\* to a multiple of 1/scale
IsSquare(n) == ISqrt(n) * ISqrt(n) = n
Sqrt(a, scale) ==
    IF IsSquare(a.n) /\ IsSquare(a.d) THEN Frac(ISqrt(a.n), ISqrt(a.d))
    ELSE Frac(ISqrt(FloorTimes(a, scale * scale)), scale)

\* x.toFixed(0) read back by parseFloat, for x >= 0: the nearest integer,
\* a half going up
ToFixed0(a) == (a.n \div a.d) + (IF 2 * (a.n % a.d) >= a.d THEN 1 ELSE 0)
\* x.toFixed(2) read back by parseFloat, for x >= 0
ToFixed2(a) == Frac((a.n \div a.d) * 100 + ToFixed0([n |-> (a.n % a.d) * 100, d |-> a.d]), 100)

\* a store of 0 <= a <= 255 into a Uint8ClampedArray: the nearest integer,
\* a half going to the even neighbour
ToUint8Clamped(a) ==
    LET f == RFloor(a)
        twice == 2 * (a.n % a.d)
    IN  IF twice > a.d THEN f + 1
        ELSE IF twice < a.d THEN f
        ELSE IF f % 2 = 0 THEN f ELSE f + 1

\* Math.round of the non-negative fraction num/den (den > 0): floor(x + 0.5).
MathRound(num, den) == (2 * num + den) \div (2 * den)

(***************************************************************************)
(* utils/imageAutoCrop.ts : findBoundingBox                                *)
(*                                                                         *)
(* An edge map is kept as a set of strokes (filled rectangles of one edge  *)
(* value each) over a width x height buffer that is 0 elsewhere;           *)
(* EdgeAt(e, x, y) is edgeData[y * width + x].                             *)
(***************************************************************************)
edgePixelThreshold == 50
\* lineDensityThreshold = 0.1, kept as the fraction 1/10
lineDensityNum == 1
lineDensityDen == 10

MaxOf(S) == IF S = {} THEN 0
            ELSE LET v == CHOOSE v \in S : \A u \in S : u <= v IN v

EdgeAt(e, x, y) ==
    MaxOf({s.v : s \in {t \in e.strokes : /\ t.x1 <= x /\ x <= t.x2
                                          /\ t.y1 <= y /\ y <= t.y2}})

\* The pixels of row y (of column x) that count as edges,
\* {x : edgeData[y * width + x] > edgePixelThreshold}, gathered stroke by
\* stroke: a pixel is over the threshold iff a stroke over it is.
RowEdges(e, y) ==
    UNION {s.x1..s.x2 : s \in {t \in e.strokes :
              t.y1 <= y /\ y <= t.y2 /\ t.v > edgePixelThreshold}}
ColEdges(e, x) ==
    UNION {s.y1..s.y2 : s \in {t \in e.strokes :
              t.x1 <= x /\ x <= t.x2 /\ t.v > edgePixelThreshold}}

\* edgeCount of row y / of column x
RowEdgeCount(e, y) == Cardinality(RowEdges(e, y) \cap 0..(e.width - 1))
ColEdgeCount(e, x) == Cardinality(ColEdges(e, x) \cap 0..(e.height - 1))

\* a line at exactly the threshold taken as dense
DenseLineInclusive(edgeCount, size) == edgeCount * lineDensityDen >= lineDensityNum * size

\* edgeCount / size > lineDensityThreshold
DenseLine(edgeCount, size) == edgeCount * lineDensityDen > lineDensityNum * size

\* the rows / columns whose edge density is over the threshold
DenseRows(e) ==
    {y \in 0..(e.height - 1) : DenseLine(RowEdgeCount(e, y), e.width)}
DenseCols(e) ==
    {x \in 0..(e.width - 1) : DenseLine(ColEdgeCount(e, x), e.height)}

\* a scan upward in the index stops at the least dense line, a scan downward
\* at the greatest; -1 when the loop ends without a break
FirstOf(S) == IF S = {} THEN -1 ELSE CHOOSE v \in S : \A u \in S : v <= u
\* the downward scan ending before index 0
LastOfAboveZero(S) == IF S \ {0} = {} THEN -1 ELSE CHOOSE v \in S \ {0} : \A u \in S : u <= v
LastOf(S) == IF S = {} THEN -1 ELSE CHOOSE v \in S : \A u \in S : u <= v

BoxBounds(e) ==
    LET rows == DenseRows(e)
        cols == DenseCols(e)
    IN  [top    |-> FirstOf(rows),
         bottom |-> LastOf(rows),
         left   |-> FirstOf(cols),
         right  |-> LastOf(cols)]

\* the box taken one pixel too wide and too high
BoxFromBoundsInclusive(b) ==
    IF \/ b.top = -1 \/ b.bottom = -1 \/ b.left = -1 \/ b.right = -1
       \/ b.right <= b.left \/ b.bottom <= b.top
    THEN Null
    ELSE [x |-> b.left, y |-> b.top,
          width |-> b.right - b.left + 1, height |-> b.bottom - b.top + 1]

BoxFromBounds(b) ==
    IF \/ b.top = -1 \/ b.bottom = -1 \/ b.left = -1 \/ b.right = -1
       \/ b.right <= b.left \/ b.bottom <= b.top
    THEN Null
    ELSE [x |-> b.left, y |-> b.top,
          width |-> b.right - b.left, height |-> b.bottom - b.top]

findBoundingBox(e) == BoxFromBounds(BoxBounds(e))

(***************************************************************************)
(* utils/imageAutoCrop.ts : suggestCrop                                    *)
(***************************************************************************)
DOWNSCALE_WIDTH == 400

\* the 2% inner padding, 0.02 = 1/50; the area band 0.1 = 1/10, 0.98 = 49/50
PaddingDen == 50
MinAreaDen == 10
MaxAreaNum == 49
MaxAreaDen == 50

\* downscaleHeight = Math.round(originalHeight / scale), scale = originalWidth / 400
downscaleHeight(originalWidth, originalHeight) ==
    MathRound(originalHeight * DOWNSCALE_WIDTH, originalWidth)

\* Math.round(v * scale) for a length of v50 / 50 downscaled pixels
ScaleBack(v50, originalWidth) ==
    MathRound(v50 * originalWidth, PaddingDen * DOWNSCALE_WIDTH)

\* mutant of finalCrop: the padding moves the corner but the size is not shrunk
finalCropNoShrink(box, originalWidth) ==
    [x      |-> ScaleBack(PaddingDen * box.x + box.width, originalWidth),
     y      |-> ScaleBack(PaddingDen * box.y + box.height, originalWidth),
     width  |-> ScaleBack(PaddingDen * box.width, originalWidth),
     height |-> ScaleBack(PaddingDen * box.height, originalWidth)]

\* box.x += paddingX; box.width -= paddingX * 2; ... then the rescale
finalCrop(box, originalWidth) ==
    [x      |-> ScaleBack(PaddingDen * box.x + box.width, originalWidth),
     y      |-> ScaleBack(PaddingDen * box.y + box.height, originalWidth),
     width  |-> ScaleBack(PaddingDen * box.width - 2 * box.width, originalWidth),
     height |-> ScaleBack(PaddingDen * box.height - 2 * box.height, originalWidth)]

\* mutant of AreaRejected: both conditions are required (&& for ||)
AreaRejectedBoth(crop, originalWidth, originalHeight) ==
    LET cropArea == crop.width * crop.height
        fullArea == originalWidth * originalHeight
    IN  /\ cropArea * MinAreaDen < fullArea
        /\ cropArea * MaxAreaDen > MaxAreaNum * fullArea

\* cropArea < minArea || cropArea > maxArea
AreaRejected(crop, originalWidth, originalHeight) ==
    LET cropArea == crop.width * crop.height
        fullArea == originalWidth * originalHeight
    IN  \/ cropArea * MinAreaDen < fullArea
        \/ cropArea * MaxAreaDen > MaxAreaNum * fullArea

\* what the executor resolves with once the edge map is known
CropResolution(box, originalWidth, originalHeight) ==
    IF box = Null THEN Null
    ELSE IF AreaRejected(finalCrop(box, originalWidth), originalWidth, originalHeight)
         THEN Null
         ELSE finalCrop(box, originalWidth)

NoLocal == [box |-> Idle, finalCrop |-> Idle]

\* Runs the executor to its first suspension: getContext, then await
\* createImageBitmap.
CropStart ==
    /\ cropPc = "start"
    /\ IF ~cropIn.ctxAvailable
       THEN /\ cropPc' = "settled"
            /\ cropOut' = Null
       ELSE /\ cropPc' = "awaitBitmap"
            /\ cropOut' = Pending
    /\ UNCHANGED <<cropIn, cropEdges, cropLocal>>

\* the executor without its try/catch: the exception rejects nothing and
\* resolves nothing, and is recorded here as a rejection
CropThrowUncaught ==
    /\ cropPc = "awaitBitmap"
    /\ \/ ~cropIn.bitmapOk
       \/ downscaleHeight(cropIn.width, cropIn.height) = 0
    /\ cropPc' = "settled"
    /\ cropOut' = [rejected |-> "error"]
    /\ UNCHANGED <<cropIn, cropEdges, cropLocal>>

\* createImageBitmap rejected, or getImageData threw on a canvas of height 0:
\* the catch block resolves null.
CropThrow ==
    /\ cropPc = "awaitBitmap"
    /\ \/ ~cropIn.bitmapOk
       \/ downscaleHeight(cropIn.width, cropIn.height) = 0
    /\ cropPc' = "settled"
    /\ cropOut' = Null
    /\ UNCHANGED <<cropIn, cropEdges, cropLocal>>

(***************************************************************************)
(* The inputs of suggestCrop: the ImageData size, whether getContext and   *)
(* createImageBitmap succeed, and the edge map that sobel hands over for   *)
(* the browser's downscaled picture.  sobel leaves the border at 0, so the *)
(* strokes stay inside 1..width-2 x 1..height-2.                           *)
(***************************************************************************)
MaxOriginalHeight == 12
MaxDownscaleHeight == 40
CropWidths == {10, 100, 300, 400, 1000}
CropCols == {1, 150, DOWNSCALE_WIDTH - 2}
CropRows(h) == {1, 2, h - 2} \cap 1..(h - 2)

CropInputs ==
    {i \in [width : CropWidths, height : 1..MaxOriginalHeight,
            ctxAvailable : BOOLEAN, bitmapOk : BOOLEAN] :
        downscaleHeight(i.width, i.height) <= MaxDownscaleHeight}

Stroke(x1, x2, y1, y2, v) == [x1 |-> x1, x2 |-> x2, y1 |-> y1, y2 |-> y2, v |-> v]

\* the one-pixel outline of the rectangle with columns L..R and rows T..B
Outline(L, R, T, B, v) ==
    {Stroke(L, R, T, T, v), Stroke(L, R, B, B, v),
     Stroke(L, L, T, B, v), Stroke(R, R, T, B, v)}

EdgeMaps(w, h) ==
    {[width |-> w, height |-> h, strokes |-> st] : st \in
        {{}} \cup
        {Outline(1, w - 2, 1, h - 2, edgePixelThreshold)} \cup
        {Outline(q[1], q[2], q[3], q[4], 255) :
            q \in {r \in CropCols \X CropCols \X CropRows(h) \X CropRows(h) :
                      r[1] <= r[2] /\ r[3] <= r[4]}}
        \cup {{Stroke(L, R, T, B, 255)} :
            L \in {1}, R \in CropCols, T \in {1}, B \in CropRows(h)}}

\* The rest of the executor after the await: getImageData, grayscale, sobel,
\* findBoundingBox, the padding and rescale, the area check, resolve.
CropDetect ==
    /\ cropPc = "awaitBitmap"
    /\ cropIn.bitmapOk
    /\ downscaleHeight(cropIn.width, cropIn.height) > 0
    /\ \E e \in EdgeMaps(DOWNSCALE_WIDTH, downscaleHeight(cropIn.width, cropIn.height)) :
          LET box == findBoundingBox(e) IN
          /\ cropEdges' = e
          /\ cropLocal' = [box |-> box,
                           finalCrop |-> IF box = Null THEN Idle
                                         ELSE finalCrop(box, cropIn.width)]
          /\ cropOut' = CropResolution(box, cropIn.width, cropIn.height)
    /\ cropPc' = "settled"
    /\ UNCHANGED cropIn

SobelIdle == sobIn = Idle /\ sobLocal = Idle /\ sobOut = Idle

ClaheIdle == claheIn = Idle /\ claheLocal = Idle /\ claheOut = Idle

SolveIdle == solPc = "idle" /\ solIn = Idle /\ solHeap = Idle /\ solLocal = Idle /\ solOut = Idle

PerspectiveIdle == ptPc = "idle" /\ ptIn = Idle /\ ptLocal = Idle /\ ptDest = Idle /\ ptOut = Idle

BoxIdle == boxIn = Idle /\ boxOut = Idle

FrameIdle == frCall = Idle /\ frHeap = Idle /\ frLocal = Idle /\ frRet = Idle

IntegralIdle == iiIn = Idle /\ iiY = Idle /\ iiStored = Idle

OcrIdle == ocrPc = "idle" /\ ocrIn = Idle /\ ocrLocal = Idle /\ ocrStages = Idle /\ ocrOut = Idle

ThrIdle == thrIn = Idle /\ thrOut = Idle

QualityIdle == qIn = Idle /\ qLocal = Idle /\ qOut = Idle

SharpIdle == shIn = Idle /\ shOut = Idle

InitCrop ==
    /\ OcrIdle
    /\ IntegralIdle
    /\ FrameIdle
    /\ BoxIdle
    /\ PerspectiveIdle
    /\ SolveIdle
    /\ ClaheIdle
    /\ SobelIdle
    /\ ThrIdle
    /\ QualityIdle
    /\ SharpIdle
    /\ cropPc = "start"
    /\ cropIn \in CropInputs
    /\ cropEdges = Idle
    /\ cropLocal = NoLocal
    /\ cropOut = Pending

NextCrop == (CropStart \/ CropThrow \/ CropDetect) /\ UNCHANGED <<thrVars, qVars, shVars, sobVars, claheVars, solVars, ptVars, boxVars, frVars, iiVars, ocrVars>>

SpecCrop == InitCrop /\ [][NextCrop]_vars

CropResolved == cropPc = "settled" /\ cropOut # Null /\ cropOut # Pending
CropComputed == cropPc = "settled" /\ cropLocal.finalCrop # Idle

\* C1: every non-null CropSuggestion that suggestCrop resolves lies inside the
\* source image: x >= 0, y >= 0, width > 0, height > 0,
\* x + width <= originalWidth and y + height <= originalHeight.
C1_CropInsideSource ==
    CropResolved =>
        /\ cropOut.x >= 0 /\ cropOut.y >= 0
        /\ cropOut.width > 0 /\ cropOut.height > 0
        /\ cropOut.x + cropOut.width <= cropIn.width
        /\ cropOut.y + cropOut.height <= cropIn.height

\* a suggestion resolved for a source narrower than the working width
\* (scale < 1) that reaches the source's right edge
C1_Witness ==
    /\ CropResolved
    /\ cropIn.width < DOWNSCALE_WIDTH
    /\ cropOut.x + cropOut.width = cropIn.width

\* C2: a non-null suggestion has a final area of at least 10% and at most 98%
\* of the source area, and a computed finalCrop outside that band resolves null.
C2_CropAreaBand ==
    /\ CropResolved =>
          /\ cropOut.width * cropOut.height * MinAreaDen >= cropIn.width * cropIn.height
          /\ cropOut.width * cropOut.height * MaxAreaDen
                <= MaxAreaNum * cropIn.width * cropIn.height
    /\ CropComputed =>
          LET area == cropLocal.finalCrop.width * cropLocal.finalCrop.height
              full == cropIn.width * cropIn.height
          IN  /\ (area * MinAreaDen < full \/ area * MaxAreaDen > MaxAreaNum * full)
                    => cropOut = Null
              /\ cropOut # Null => cropOut = cropLocal.finalCrop

\* a finalCrop above 98% of the source area was computed and rejected
C2_Witness ==
    /\ CropComputed
    /\ cropLocal.finalCrop.width * cropLocal.finalCrop.height * MaxAreaDen
          > MaxAreaNum * cropIn.width * cropIn.height
    /\ cropOut = Null

\* what suggestCrop's promise holds: pending, resolved (with null or with a
\* CropSuggestion), never rejected
CropRejected == cropOut # Pending /\ "rejected" \in DOMAIN cropOut
CropSettled == cropPc = "settled"
BoundsMissing(b) == b.top = -1 \/ b.bottom = -1 \/ b.left = -1 \/ b.right = -1
CropFailure ==
    \/ ~cropIn.ctxAvailable
    \/ ~cropIn.bitmapOk
    \/ downscaleHeight(cropIn.width, cropIn.height) = 0
    \/ cropEdges # Idle /\ BoundsMissing(BoxBounds(cropEdges))

\* C19: suggestCrop never rejects; when the context is missing, a step
\* throws or findBoundingBox leaves a bound unset, the promise resolves
\* with null; it resolves with a suggestion only when all four bounds were
\* found and the area check passed.
C19_NullOnFailure ==
    /\ ~CropRejected
    /\ ~CropSettled => cropOut = Pending
    /\ CropSettled => cropOut # Pending
    /\ CropSettled /\ CropFailure => cropOut = Null
    /\ CropResolved =>
          /\ cropEdges # Idle
          /\ ~BoundsMissing(BoxBounds(cropEdges))
          /\ ~AreaRejected(cropOut, cropIn.width, cropIn.height)
          /\ cropOut = finalCrop(findBoundingBox(cropEdges), cropIn.width)

\* the catch block has resolved null for a canvas of height 0
C19_Witness ==
    /\ CropSettled
    /\ cropIn.ctxAvailable /\ cropIn.bitmapOk
    /\ downscaleHeight(cropIn.width, cropIn.height) = 0
    /\ cropOut = Null

(***************************************************************************)
(* utils/imagePreprocessing.ts : applyAdaptiveThresholding                 *)
(*                                                                         *)
(* A grayscale buffer is a function from 0..width*height-1 to 0..255.      *)
(***************************************************************************)
\* A store into a Uint32Array keeps the value modulo 2^32; 2^32 is written
\* as 65536 * 65536 in two 16-bit halves.
Uint32Half == 65536
ToUint32(v) == ((v \div Uint32Half) % Uint32Half) * Uint32Half + (v % Uint32Half)

halfBlock(blockSize) == blockSize \div 2

\* rowSum after the inner loop reached column x of row y
rowSum(g, width, x, y) == Sum([i \in 0..x |-> g[y * width + i]], 0, x)

\* the integral image (summed-area table), as the double loop fills it
integralImage(g, width, height) ==
    LET I[index \in 0..(width * height - 1)] ==
            LET y == index \div width
                x == index % width
            IN  IF y = 0 THEN ToUint32(rowSum(g, width, x, y))
                ELSE ToUint32(rowSum(g, width, x, y) + I[(y - 1) * width + x])
    IN  I

\* the neighbourhood of (x, y), clamped to the image edges
Window(width, height, hb, x, y) ==
    [x1 |-> Max(0, x - hb), y1 |-> Max(0, y - hb),
     x2 |-> Min(width - 1, x + hb), y2 |-> Min(height - 1, y + hb)]

WindowCount(n) == (n.x2 - n.x1 + 1) * (n.y2 - n.y1 + 1)

\* mutant of WindowSum: the left column of the window is subtracted with it
\* (x1 for x1 - 1)
WindowSumOffByOne(I, width, n) ==
    I[n.y2 * width + n.x2]
    - (IF n.x1 > 0 THEN I[n.y2 * width + n.x1] ELSE 0)
    - (IF n.y1 > 0 THEN I[(n.y1 - 1) * width + n.x2] ELSE 0)
    + (IF n.x1 > 0 /\ n.y1 > 0 THEN I[(n.y1 - 1) * width + n.x1] ELSE 0)

\* the sum of the neighbourhood from four lookups of the integral image
WindowSum(I, width, n) ==
    I[n.y2 * width + n.x2]
    - (IF n.x1 > 0 THEN I[n.y2 * width + (n.x1 - 1)] ELSE 0)
    - (IF n.y1 > 0 THEN I[(n.y1 - 1) * width + n.x2] ELSE 0)
    + (IF n.x1 > 0 /\ n.y1 > 0 THEN I[(n.y1 - 1) * width + (n.x1 - 1)] ELSE 0)

\* mutant of Binarize: C is added to the mean instead of subtracted
BinarizePlusC(pixel, sum, count, C) ==
    IF pixel * count > sum + C * count THEN 255 ELSE 0

\* grayscale[index] > (sum / count) - C ? 255 : 0, with count > 0
Binarize(pixel, sum, count, C) ==
    IF pixel * count > sum - C * count THEN 255 ELSE 0

applyAdaptiveThresholding(g, width, height, blockSize, C) ==
    LET I == integralImage(g, width, height)
        hb == halfBlock(blockSize)
    IN  [index \in 0..(width * height - 1) |->
            LET n == Window(width, height, hb, index % width, index \div width)
            IN  Binarize(g[index], WindowSum(I, width, n), WindowCount(n), C)]


\* The reference of the equivalence: the neighbourhood summed pixel by pixel.
BruteForceSum(g, width, n) ==
    Sum([yy \in n.y1..n.y2 |->
            Sum([xx \in n.x1..n.x2 |-> g[yy * width + xx]], n.x1, n.x2)], n.y1, n.y2)

BruteForceThreshold(g, width, height, blockSize, C) ==
    [index \in 0..(width * height - 1) |->
        LET n == Window(width, height, halfBlock(blockSize),
                        index % width, index \div width)
        IN  Binarize(g[index], BruteForceSum(g, width, n), WindowCount(n), C)]

(***************************************************************************)
(* The inputs of applyAdaptiveThresholding: every buffer of up to          *)
(* MaxThrPixels pixels over GrayLevels, and black buffers larger than the   *)
(* default block with up to MaxWhitePixels white pixels (and their          *)
(* negatives), with a few (blockSize, C) pairs, the defaults (21, 7) among  *)
(* them.                                                                    *)
(***************************************************************************)
MaxThrPixels == 5
MaxWhitePixels == 1
GrayLevels == {0, 120, 255}
DefaultBlockSize == 21
DefaultC == 7
ThrParams == {<<DefaultBlockSize, DefaultC>>, <<1, 0>>, <<3, DefaultC>>, <<3, -5>>, <<4, 300>>}
WideSizes == {<<12, 1>>, <<1, 12>>, <<7, 6>>, <<23, 1>>, <<3, 3>>, <<4, 3>>}

SmallSizes == {sz \in (1..MaxThrPixels) \X (1..MaxThrPixels) : sz[1] * sz[2] <= MaxThrPixels}

\* the subsets of 0..n-1 with at most k elements
RECURSIVE SubsetsUpTo(_, _)
SubsetsUpTo(n, k) ==
    IF k = 0 THEN {{}}
    ELSE LET prev == SubsetsUpTo(n, k - 1)
         IN  prev \cup {S \cup {i} : S \in prev, i \in 0..(n - 1)}

ThrBuffers(sizes, wideSizes, k) ==
    UNION {{[grayscale |-> g, width |-> sz[1], height |-> sz[2]] :
                g \in [0..(sz[1] * sz[2] - 1) -> GrayLevels]} : sz \in sizes}
    \cup
    UNION {{[grayscale |-> [i \in 0..(sz[1] * sz[2] - 1) |-> IF (i \in S) = inv THEN 0 ELSE 255],
             width |-> sz[1], height |-> sz[2]] :
                S \in SubsetsUpTo(sz[1] * sz[2], k), inv \in BOOLEAN} :
            sz \in wideSizes}

ThrInputs(buffers) ==
    {[grayscale |-> b.grayscale, width |-> b.width, height |-> b.height,
      blockSize |-> q[1], C |-> q[2]] : b \in buffers, q \in ThrParams}

Threshold ==
    /\ thrIn # Idle
    /\ thrOut = Idle
    /\ thrOut' = [result |-> applyAdaptiveThresholding(thrIn.grayscale, thrIn.width,
                                       thrIn.height, thrIn.blockSize, thrIn.C)]
    /\ UNCHANGED thrIn

CropIdle ==
    /\ cropPc = "idle" /\ cropIn = Idle /\ cropEdges = Idle
    /\ cropLocal = Idle /\ cropOut = Idle

InitThreshold ==
    /\ OcrIdle
    /\ IntegralIdle
    /\ FrameIdle
    /\ BoxIdle
    /\ PerspectiveIdle
    /\ SolveIdle
    /\ ClaheIdle
    /\ SobelIdle
    /\ CropIdle
    /\ QualityIdle
    /\ SharpIdle
    /\ thrIn \in ThrInputs(ThrBuffers(SmallSizes, WideSizes, MaxWhitePixels))
    /\ thrOut = Idle

NextThreshold == Threshold /\ UNCHANGED <<cropVars, qVars, shVars, sobVars, claheVars, solVars, ptVars, boxVars, frVars, iiVars, ocrVars>>

SpecThreshold == InitThreshold /\ [][NextThreshold]_vars

ThrPixels == 0..(thrIn.width * thrIn.height - 1)

ThrDefaults == thrIn.blockSize = DefaultBlockSize /\ thrIn.C = DefaultC
ThrBinaryInput == \A i \in ThrPixels : thrIn.grayscale[i] \in {0, 255}
ThrWindow(i) ==
    Window(thrIn.width, thrIn.height, halfBlock(thrIn.blockSize),
           i % thrIn.width, i \div thrIn.width)

MIN_RESOLUTION_WIDTH == 600
MIN_RESOLUTION_HEIGHT == 400
BLUR_THRESHOLD == 100
BLUR_OPTIMAL == 300
BRIGHTNESS_LOW_THRESHOLD == 50
BRIGHTNESS_HIGH_THRESHOLD == 205
BRIGHTNESS_OPTIMAL == 128
CONTRAST_LOW_THRESHOLD == 25
CONTRAST_OPTIMAL == 60
SATURATION_HIGH_THRESHOLD == 85
COLOR_BALANCE_DEVIATION_THRESHOLD == 30
COLOR_CLIPPING_PIXEL_PERCENT_THRESHOLD == 5
FOCUS_GRADIENT_MAGNITUDE_THRESHOLD == 8
FOCUS_OPTIMAL == 25

\* the resolution kept of Math.sqrt: 1/100 for the standard deviation, 1/10
\* for a gradient magnitude
StdDevScale == 100
MagnitudeScale == 10

Cells(img) == 0..(img.tw * img.th - 1)

\* the number of v in lo..hi with v % period = r
AxisCount(period, r, lo, hi) ==
    IF hi < lo THEN 0 ELSE ((hi - r) \div period) - ((lo - 1 - r) \div period)

\* per cell, the number of pixels of the whole picture / of its interior
\* (1 <= x < width - 1, 1 <= y < height - 1)
PixelCounts(img) ==
    [c \in Cells(img) |->
        AxisCount(img.tw, c % img.tw, 0, img.width - 1)
        * AxisCount(img.th, c \div img.tw, 0, img.height - 1)]
InteriorCounts(img) ==
    [c \in Cells(img) |->
        AxisCount(img.tw, c % img.tw, 1, img.width - 2)
        * AxisCount(img.th, c \div img.tw, 1, img.height - 2)]

\* (sum over the len pixels of a loop of the fraction f[cell of the pixel]) / len,
\* taken as the sum of f[c] * (pixels of the loop in cell c) / len
RECURSIVE MeanPixelsUpTo(_, _, _, _)
MeanPixelsUpTo(f, counts, len, c) ==
    IF c < 0 THEN RInt(0)
    ELSE RAdd(RMul(Frac(counts[c], len), f[c]), MeanPixelsUpTo(f, counts, len, c - 1))
MeanPixels(f, counts, len) ==
    MeanPixelsUpTo(f, counts, len, Cardinality(DOMAIN counts) - 1)

\* 0.299 * r + 0.587 * g + 0.114 * b
Luminance(px) == Frac(299 * px.r + 587 * px.g + 114 * px.b, 1000)

\* calculateLuminanceAndStdDev: mean, stdDev and the grayscale buffer (by cell)
calculateLuminanceAndStdDev(img) ==
    LET counts == PixelCounts(img)
        len == img.width * img.height
        grayscale == [c \in Cells(img) |-> ToUint8Clamped(Luminance(img.tile[c]))]
        mean == MeanPixels([c \in Cells(img) |-> Luminance(img.tile[c])], counts, len)
        variance ==
            MeanPixels([c \in Cells(img) |-> RSquare(RSub(RInt(grayscale[c]), mean))],
                       counts, len)
    IN  [mean |-> mean,
         stdDev |-> Sqrt(variance, StdDevScale),
         grayscale |-> grayscale]

\* grayscale[(y + dy) * width + (x + dx)] for a pixel (x, y) of cell c
GrayNear(img, grayscale, c, dx, dy) ==
    grayscale[(((c \div img.tw) + dy + img.th) % img.th) * img.tw
              + (((c % img.tw) + dx + img.tw) % img.tw)]

\* the 3 x 3 kernel applied at a pixel of cell c
Convolve(img, grayscale, c, kernel) ==
    Sum([k \in 0..8 |->
            GrayNear(img, grayscale, c, (k % 3) - 1, (k \div 3) - 1)
            * kernel[(k \div 3) + 1][(k % 3) + 1]], 0, 8)

laplacianKernel == <<<<0, 1, 0>>, <<1, -4, 1>>, <<0, 1, 0>>>>
sobelX == <<<<-1, 0, 1>>, <<-2, 0, 2>>, <<-1, 0, 1>>>>
sobelY == <<<<-1, -2, -1>>, <<0, 0, 0>>, <<1, 2, 1>>>>

\* the early return with -1 for 0
calculateLaplacianVarianceSentinel(img, grayscale) ==
    IF img.width < 3 \/ img.height < 3 THEN RInt(-1)
    ELSE
    LET counts == InteriorCounts(img)
        len == (img.width - 2) * (img.height - 2)
        laplacianValues ==
            [c \in Cells(img) |-> RInt(Convolve(img, grayscale, c, laplacianKernel))]
        meanLaplacian == MeanPixels(laplacianValues, counts, len)
    IN  IF len = 0 THEN RInt(0)
        ELSE MeanPixels([c \in Cells(img) |->
                            RSquare(RSub(laplacianValues[c], meanLaplacian))], counts, len)

\* calculateLaplacianVariance
calculateLaplacianVariance(img, grayscale) ==
    IF img.width < 3 \/ img.height < 3 THEN RInt(0)
    ELSE
    LET counts == InteriorCounts(img)
        len == (img.width - 2) * (img.height - 2)
        laplacianValues ==
            [c \in Cells(img) |-> RInt(Convolve(img, grayscale, c, laplacianKernel))]
        meanLaplacian == MeanPixels(laplacianValues, counts, len)
    IN  IF len = 0 THEN RInt(0)
        ELSE MeanPixels([c \in Cells(img) |->
                            RSquare(RSub(laplacianValues[c], meanLaplacian))], counts, len)

\* calculateGradientMagnitude
calculateGradientMagnitude(img, grayscale) ==
    IF img.width < 3 \/ img.height < 3 THEN RInt(0)
    ELSE
    LET counts == InteriorCounts(img)
        count == (img.width - 2) * (img.height - 2)
        magnitude ==
            [c \in Cells(img) |->
                LET Gx == Convolve(img, grayscale, c, sobelX)
                    Gy == Convolve(img, grayscale, c, sobelY)
                IN  Sqrt(RInt(Gx * Gx + Gy * Gy), MagnitudeScale)]
    IN  IF count > 0 THEN MeanPixels(magnitude, counts, count) ELSE RInt(0)

Max3(a, b, c) == Max(a, Max(b, c))
Min3(a, b, c) == Min(a, Min(b, c))

\* the s of rgbToHsl(r, g, b), for channels in 0..255
Saturation(px) ==
    LET max == Max3(px.r, px.g, px.b)
        min == Min3(px.r, px.g, px.b)
    IN  IF max = min THEN RInt(0)
        ELSE IF max + min > 255 THEN Frac(max - min, 2 * 255 - max - min)
        ELSE Frac(max - min, max + min)

IsClipped(px) ==
    \/ px.r = 0 \/ px.r = 255 \/ px.g = 0 \/ px.g = 255 \/ px.b = 0 \/ px.b = 255

\* the raw metrics of analyzeImageQuality
RawMetrics(img) ==
    LET lum == calculateLuminanceAndStdDev(img)
        counts == PixelCounts(img)
        totalPixels == img.width * img.height
        Avg(f) == MeanPixels(f, counts, totalPixels)
        avgR == Avg([c \in Cells(img) |-> RInt(img.tile[c].r)])
        avgG == Avg([c \in Cells(img) |-> RInt(img.tile[c].g)])
        avgB == Avg([c \in Cells(img) |-> RInt(img.tile[c].b)])
        colorBalanceDeviation ==
            RSub(RMax(avgR, RMax(avgG, avgB)), RMin(avgR, RMin(avgG, avgB)))
        clippedPixelPercent ==
            RMul(Avg([c \in Cells(img) |->
                        IF IsClipped(img.tile[c]) THEN RInt(1) ELSE RInt(0)]), RInt(100))
    IN  [brightnessValue |-> lum.mean,
         contrastValue |-> lum.stdDev,
         blurValue |-> calculateLaplacianVariance(img, lum.grayscale),
         focusValue |-> calculateGradientMagnitude(img, lum.grayscale),
         saturationValue |->
            RMul(Avg([c \in Cells(img) |-> Saturation(img.tile[c])]), RInt(100)),
         colorBalanceDeviation |-> colorBalanceDeviation,
         clippedPixelPercent |-> clippedPixelPercent,
         colorDistortionValue |->
            RMul(RDiv(RAdd(RDiv(colorBalanceDeviation, RInt(255)),
                           RDiv(clippedPixelPercent, RInt(100))), RInt(2)), RInt(100))]

\* options.x ?? dflt: an option is [defined |-> FALSE] or
\* [defined |-> TRUE, value |-> v], v a fraction
Coalesce(option, dflt) == IF option.defined THEN option.value ELSE RInt(dflt)

\* the component scores, before rounding
resolutionScore(isLowResolution) == IF isLowResolution THEN 0 ELSE 100

\* sharpnessScore taking the Laplacian variance for blurriness
sharpnessScoreInvertedBlur(blurValue, focusValue) ==
    LET normalizedBlur ==
            RSub(RInt(1), RMin(RInt(1), RDiv(blurValue, RInt(BLUR_OPTIMAL))))
        normalizedFocus == RMin(RInt(1), RDiv(focusValue, RInt(FOCUS_OPTIMAL)))
    IN  RMul(RAdd(RMul(normalizedBlur, Frac(6, 10)), RMul(normalizedFocus, Frac(4, 10))),
             RInt(100))

\* sharpnessScore without the Math.min(1, ...) of its two ratios
sharpnessScoreUnclamped(blurValue, focusValue) ==
    RMul(RAdd(RMul(RDiv(blurValue, RInt(BLUR_OPTIMAL)), Frac(6, 10)),
              RMul(RDiv(focusValue, RInt(FOCUS_OPTIMAL)), Frac(4, 10))), RInt(100))

sharpnessScore(blurValue, focusValue) ==
    LET normalizedBlur == RMin(RInt(1), RDiv(blurValue, RInt(BLUR_OPTIMAL)))
        normalizedFocus == RMin(RInt(1), RDiv(focusValue, RInt(FOCUS_OPTIMAL)))
    IN  RMul(RAdd(RMul(normalizedBlur, Frac(6, 10)), RMul(normalizedFocus, Frac(4, 10))),
             RInt(100))

\* lightingScore that leaves the brightness term out
lightingScoreContrastOnly(brightnessValue, contrastValue) ==
    RMul(RMul(RMin(RInt(1), RDiv(contrastValue, RInt(CONTRAST_OPTIMAL))), RInt(100)),
         Frac(5, 10))

lightingScore(brightnessValue, contrastValue) ==
    LET brightnessProximity ==
            RSub(RInt(1), RDiv(RAbs(RSub(brightnessValue, RInt(BRIGHTNESS_OPTIMAL))),
                               RInt(BRIGHTNESS_OPTIMAL)))
        normalizedBrightness == RMul(RMax(RInt(0), brightnessProximity), RInt(100))
        normalizedContrast ==
            RMul(RMin(RInt(1), RDiv(contrastValue, RInt(CONTRAST_OPTIMAL))), RInt(100))
    IN  RAdd(RMul(normalizedBrightness, Frac(5, 10)), RMul(normalizedContrast, Frac(5, 10)))

colorScore(colorDistortionValue) == RSub(RInt(100), colorDistortionValue)

\* overallQualityScore with the resolution's weight given to the colour too
overallQualityScoreColourWeight(sharpness, lighting, resolution, color) ==
    RAdd(RAdd(RMul(sharpness, Frac(40, 100)), RMul(lighting, Frac(40, 100))),
         RAdd(RMul(RInt(resolution), Frac(15, 100)), RMul(color, Frac(15, 100))))

overallQualityScore(sharpness, lighting, resolution, color) ==
    RAdd(RAdd(RMul(sharpness, Frac(40, 100)), RMul(lighting, Frac(40, 100))),
         RAdd(RMul(RInt(resolution), Frac(15, 100)), RMul(color, Frac(5, 100))))

\* the tips, by the head of their text; the move-closer tip carries the
\* width and height its text spells out
Tip(text) == [text |-> text, args |-> <<>>]
TipSteady == Tip("Image is not sharp.")
TipDark == Tip("Image is too dark.")
TipDarkLowContrast == Tip("The lack of light is also causing low contrast")
TipGlare == Tip("Image is overexposed or has glare.")
TipLowContrast == Tip("Text lacks contrast.")
TipMoveCloser(width, height) == [text |-> "Resolution is low", args |-> <<width, height>>]
TipGeneric == Tip("For best results")

\* Tips with the general tip given only under a score of 60
TipsGenericUnderSixty(flags, width, height, overall) ==
    LET sharp == IF flags.isBlurry \/ flags.isOutOfFocus THEN <<TipSteady>> ELSE <<>>
        light == IF flags.isTooDark
                 THEN <<TipDark>>
                      \o (IF flags.isLowContrast THEN <<TipDarkLowContrast>> ELSE <<>>)
                 ELSE IF flags.isTooBright THEN <<TipGlare>>
                 ELSE IF flags.isLowContrast THEN <<TipLowContrast>>
                 ELSE <<>>
        res == IF flags.isLowResolution THEN <<TipMoveCloser(width, height)>> ELSE <<>>
        tips == sharp \o light \o res
    IN  IF Len(tips) = 0 /\ RLess(overall, RInt(60)) THEN <<TipGeneric>> ELSE tips

\* Tips with the plain low-contrast tip outside the else chain
TipsLowContrastAlways(flags, width, height, overall) ==
    LET sharp == IF flags.isBlurry \/ flags.isOutOfFocus THEN <<TipSteady>> ELSE <<>>
        light == IF flags.isTooDark
                 THEN <<TipDark>>
                      \o (IF flags.isLowContrast THEN <<TipDarkLowContrast>> ELSE <<>>)
                 ELSE IF flags.isTooBright THEN <<TipGlare>>
                 ELSE <<>>
        contrast == IF flags.isLowContrast THEN <<TipLowContrast>> ELSE <<>>
        res == IF flags.isLowResolution THEN <<TipMoveCloser(width, height)>> ELSE <<>>
        tips == sharp \o light \o contrast \o res
    IN  IF Len(tips) = 0 /\ RLess(overall, RInt(90)) THEN <<TipGeneric>> ELSE tips

Tips(flags, width, height, overall) ==
    LET sharp == IF flags.isBlurry \/ flags.isOutOfFocus THEN <<TipSteady>> ELSE <<>>
        light == IF flags.isTooDark
                 THEN <<TipDark>>
                      \o (IF flags.isLowContrast THEN <<TipDarkLowContrast>> ELSE <<>>)
                 ELSE IF flags.isTooBright THEN <<TipGlare>>
                 ELSE IF flags.isLowContrast THEN <<TipLowContrast>>
                 ELSE <<>>
        res == IF flags.isLowResolution THEN <<TipMoveCloser(width, height)>> ELSE <<>>
        tips == sharp \o light \o res
    IN  IF Len(tips) = 0 /\ RLess(overall, RInt(90)) THEN <<TipGeneric>> ELSE tips

\* Flags with the comparisons of isBlurry and isOutOfFocus turned round
FlagsSharpBelow(img, raw, options) ==
    LET effectiveBlurThreshold == Coalesce(options.blurThreshold, BLUR_THRESHOLD)
        effectiveFocusThreshold ==
            Coalesce(options.focusThreshold, FOCUS_GRADIENT_MAGNITUDE_THRESHOLD)
    IN  [isLowResolution |->
            img.width < MIN_RESOLUTION_WIDTH \/ img.height < MIN_RESOLUTION_HEIGHT,
         isTooDark |-> RLess(raw.brightnessValue, RInt(BRIGHTNESS_LOW_THRESHOLD)),
         isTooBright |-> RLess(RInt(BRIGHTNESS_HIGH_THRESHOLD), raw.brightnessValue),
         isLowContrast |-> RLess(raw.contrastValue, RInt(CONTRAST_LOW_THRESHOLD)),
         isBlurry |-> RLess(effectiveBlurThreshold, raw.blurValue),
         isOutOfFocus |-> RLess(effectiveFocusThreshold, raw.focusValue),
         isOverSaturated |-> RLess(RInt(SATURATION_HIGH_THRESHOLD), raw.saturationValue),
         isColorDistorted |->
            \/ RLess(RInt(COLOR_BALANCE_DEVIATION_THRESHOLD), raw.colorBalanceDeviation)
            \/ RLess(RInt(COLOR_CLIPPING_PIXEL_PERCENT_THRESHOLD), raw.clippedPixelPercent)]

Flags(img, raw, options) ==
    LET effectiveBlurThreshold == Coalesce(options.blurThreshold, BLUR_THRESHOLD)
        effectiveFocusThreshold ==
            Coalesce(options.focusThreshold, FOCUS_GRADIENT_MAGNITUDE_THRESHOLD)
    IN  [isLowResolution |->
            img.width < MIN_RESOLUTION_WIDTH \/ img.height < MIN_RESOLUTION_HEIGHT,
         isTooDark |-> RLess(raw.brightnessValue, RInt(BRIGHTNESS_LOW_THRESHOLD)),
         isTooBright |-> RLess(RInt(BRIGHTNESS_HIGH_THRESHOLD), raw.brightnessValue),
         isLowContrast |-> RLess(raw.contrastValue, RInt(CONTRAST_LOW_THRESHOLD)),
         isBlurry |-> RLess(raw.blurValue, effectiveBlurThreshold),
         isOutOfFocus |-> RLess(raw.focusValue, effectiveFocusThreshold),
         isOverSaturated |-> RLess(RInt(SATURATION_HIGH_THRESHOLD), raw.saturationValue),
         isColorDistorted |->
            \/ RLess(RInt(COLOR_BALANCE_DEVIATION_THRESHOLD), raw.colorBalanceDeviation)
            \/ RLess(RInt(COLOR_CLIPPING_PIXEL_PERCENT_THRESHOLD), raw.clippedPixelPercent)]

\* the locals with the sharpness score withheld from a picture flagged blurry
LocalsBlurryUnscored(img, options) ==
    LET raw == RawMetrics(img)
        flags == Flags(img, raw, options)
        resolution == resolutionScore(flags.isLowResolution)
        sharpness == IF flags.isBlurry THEN RInt(0)
                     ELSE sharpnessScore(raw.blurValue, raw.focusValue)
        lighting == lightingScore(raw.brightnessValue, raw.contrastValue)
        color == colorScore(raw.colorDistortionValue)
        overall == overallQualityScore(sharpness, lighting, resolution, color)
    IN  [raw |-> raw, flags |-> flags,
         resolutionScore |-> resolution, sharpnessScore |-> sharpness,
         lightingScore |-> lighting, colorScore |-> color,
         overallQualityScore |-> overall,
         tips |-> Tips(flags, img.width, img.height, overall)]

\* the locals of analyzeImageQuality: raw metrics, flags, unrounded scores
Locals(img, options) ==
    LET raw == RawMetrics(img)
        flags == Flags(img, raw, options)
        resolution == resolutionScore(flags.isLowResolution)
        sharpness == sharpnessScore(raw.blurValue, raw.focusValue)
        lighting == lightingScore(raw.brightnessValue, raw.contrastValue)
        color == colorScore(raw.colorDistortionValue)
        overall == overallQualityScore(sharpness, lighting, resolution, color)
    IN  [raw |-> raw, flags |-> flags,
         resolutionScore |-> resolution, sharpnessScore |-> sharpness,
         lightingScore |-> lighting, colorScore |-> color,
         overallQualityScore |-> overall,
         tips |-> Tips(flags, img.width, img.height, overall)]

\* the ImageQualityReport built from the locals
Report(img, l) ==
    [overallQualityScore |-> ToFixed0(l.overallQualityScore),
     sharpnessScore |-> ToFixed0(l.sharpnessScore),
     lightingScore |-> ToFixed0(l.lightingScore),
     resolutionScore |-> ToFixed0(RInt(l.resolutionScore)),
     colorScore |-> ToFixed0(l.colorScore),
     isBlurry |-> l.flags.isBlurry,
     blurValue |-> ToFixed2(l.raw.blurValue),
     isOutOfFocus |-> l.flags.isOutOfFocus,
     focusValue |-> ToFixed2(l.raw.focusValue),
     isTooDark |-> l.flags.isTooDark,
     isTooBright |-> l.flags.isTooBright,
     brightnessValue |-> ToFixed2(l.raw.brightnessValue),
     isLowContrast |-> l.flags.isLowContrast,
     contrastValue |-> ToFixed2(l.raw.contrastValue),
     isLowResolution |-> l.flags.isLowResolution,
     resolutionWidth |-> img.width,
     resolutionHeight |-> img.height,
     isOverSaturated |-> l.flags.isOverSaturated,
     saturationValue |-> ToFixed2(l.raw.saturationValue),
     isColorDistorted |-> l.flags.isColorDistorted,
     colorDistortionValue |-> ToFixed2(l.raw.colorDistortionValue),
     tips |-> l.tips]

(***************************************************************************)
(* The inputs of analyzeImageQuality.  Options are the defaults ({}) or    *)
(* what components/IDScanner.tsx passes: blurThreshold = the sharpness     *)
(* slider (50..200), focusThreshold = slider * 8 / 100.                    *)
(***************************************************************************)
Undefined == [defined |-> FALSE]
Defined(v) == [defined |-> TRUE, value |-> v]

SliderMin == 50
SliderMax == 200
Sensitivities == {SliderMin, BLUR_THRESHOLD, SliderMax}
QualityOptions ==
    {[blurThreshold |-> Undefined, focusThreshold |-> Undefined]}
    \cup {[blurThreshold |-> Defined(RInt(s)), focusThreshold |-> Defined(Frac(8 * s, 100))] :
            s \in Sensitivities}

Gray(v) == [r |-> v, g |-> v, b |-> v]

\* pictures by pattern: one colour, columns a b, rows a b, stripes a a b b,
\* checkerboard
Uniform(w, h, a) ==
    [width |-> w, height |-> h, tw |-> 1, th |-> 1, tile |-> [c \in 0..0 |-> a]]
Columns(w, h, a, b) ==
    [width |-> w, height |-> h, tw |-> 2, th |-> 1,
     tile |-> [c \in 0..1 |-> IF c = 0 THEN a ELSE b]]
Rows(w, h, a, b) ==
    [width |-> w, height |-> h, tw |-> 1, th |-> 2,
     tile |-> [c \in 0..1 |-> IF c = 0 THEN a ELSE b]]
Stripes(w, h, a, b) ==
    [width |-> w, height |-> h, tw |-> 4, th |-> 1,
     tile |-> [c \in 0..3 |-> IF c < 2 THEN a ELSE b]]
Checker(w, h, a, b) ==
    [width |-> w, height |-> h, tw |-> 2, th |-> 2,
     tile |-> [c \in 0..3 |-> IF c \in {0, 3} THEN a ELSE b]]

\* gray levels rising by step over six columns and falling over the next
\* six, lowest in column 9 and highest in column 3 of each twelve
Ramp(w, h, base, step) ==
    [width |-> w, height |-> h, tw |-> 12, th |-> 1,
     tile |-> [c \in 0..11 |->
                 LET k == (c + 3) % 12
                 IN  Gray(base + step * (IF k <= 6 THEN k ELSE 12 - k))]]

MaxSmallSide == 4
SmallSides == 1..MaxSmallSide
LargeSizes ==
    ({MIN_RESOLUTION_WIDTH - 1, MIN_RESOLUTION_WIDTH}
        \X {MIN_RESOLUTION_HEIGHT - 1, MIN_RESOLUTION_HEIGHT})
    \cup {<<1000, 1000>>}

\* the large sizes of the patterned pictures: multiples of the patterns' periods
LargePatternSizes ==
    {<<MIN_RESOLUTION_WIDTH - 4, MIN_RESOLUTION_HEIGHT>>,
     <<MIN_RESOLUTION_WIDTH, MIN_RESOLUTION_HEIGHT - 4>>,
     <<MIN_RESOLUTION_WIDTH, MIN_RESOLUTION_HEIGHT>>,
     <<1000, 1000>>}

\* levels and colours of the patterned pictures; the colours have an integer
\* luminance (120 and 59)
GrayValues == {0, 99, 128, 157, 255}
Tinted == [r |-> 161, g |-> 103, b |-> 100]
ClippedBlue == [r |-> 0, g |-> 64, b |-> 188]
PureBlue == [r |-> 0, g |-> 0, b |-> 255]
Palette == {Gray(v) : v \in GrayValues} \cup {Tinted, ClippedBlue}

\* the levels of the large patterned pictures, at most 60 apart
LargeGrayPairs == {<<99, 157>>, <<98, 158>>, <<113, 143>>, <<10, 70>>, <<195, 251>>}

Patterned(w, h, a, b) ==
    {Columns(w, h, a, b), Rows(w, h, a, b), Stripes(w, h, a, b), Checker(w, h, a, b)}

QualityImages(sides, sizes, patternSizes) ==
    {Uniform(sz[1], sz[2], Gray(v)) :
        sz \in (sides \X sides) \cup sizes, v \in 0..255}
    \cup {Uniform(sz[1], sz[2], a) :
            sz \in (sides \X sides) \cup sizes,
            a \in {Tinted, ClippedBlue, PureBlue}}
    \cup UNION {Patterned(w, h, a, b) :
                    w \in sides, h \in sides, a \in Palette, b \in Palette}
    \cup UNION {Patterned(sz[1], sz[2], Gray(p[1]), Gray(p[2])) :
                    sz \in patternSizes, p \in LargeGrayPairs}
    \cup {Stripes(MIN_RESOLUTION_WIDTH, MIN_RESOLUTION_HEIGHT, Gray(68), Gray(188)),
          Ramp(MIN_RESOLUTION_WIDTH, MIN_RESOLUTION_HEIGHT, 83, 15)}

QualityInputs(images) == {[imageData |-> i, options |-> o] : i \in images, o \in QualityOptions}

analyzeImageQuality ==
    /\ qIn # Idle
    /\ qOut = Idle
    /\ qLocal' = Locals(qIn.imageData, qIn.options)
    /\ qOut' = Report(qIn.imageData, qLocal')
    /\ UNCHANGED qIn

InitQuality ==
    /\ OcrIdle
    /\ IntegralIdle
    /\ FrameIdle
    /\ BoxIdle
    /\ PerspectiveIdle
    /\ SolveIdle
    /\ ClaheIdle
    /\ SobelIdle
    /\ CropIdle
    /\ ThrIdle
    /\ SharpIdle
    /\ qIn \in QualityInputs(QualityImages(SmallSides, LargeSizes, LargePatternSizes))
    /\ qLocal = Idle
    /\ qOut = Idle

NextQuality == analyzeImageQuality /\ UNCHANGED <<cropVars, thrVars, shVars, sobVars, claheVars, solVars, ptVars, boxVars, frVars, iiVars, ocrVars>>

SpecQuality == InitQuality /\ [][NextQuality]_vars

QReturned == qOut # Idle
DefaultOptions == [blurThreshold |-> Undefined, focusThreshold |-> Undefined]

\* C5: for the 1000 x 1000 picture of gray 128 and default options the report
\* has Laplacian variance 0, gradient mean 0, luminance mean 128, stddev 0,
\* isBlurry, isOutOfFocus, isLowContrast, and an overall score below 30.
C5_OverallBelow30 ==
    (QReturned /\ qIn.imageData = Uniform(1000, 1000, Gray(128))
        /\ qIn.options = DefaultOptions) =>
        /\ qOut.blurValue = RInt(0) /\ qOut.focusValue = RInt(0)
        /\ qOut.brightnessValue = RInt(128) /\ qOut.contrastValue = RInt(0)
        /\ qOut.isBlurry /\ qOut.isOutOfFocus /\ qOut.isLowContrast
        /\ qOut.overallQualityScore < 30

\* C5, amended: the same picture and options give the same metrics and flags,
\* and an overall score of 40 (sharpness 0, lighting 50, resolution 100,
\* colour 100).
C5_OverallIs40 ==
    (QReturned /\ qIn.imageData = Uniform(1000, 1000, Gray(128))
        /\ qIn.options = DefaultOptions) =>
        /\ qOut.blurValue = RInt(0) /\ qOut.focusValue = RInt(0)
        /\ qOut.brightnessValue = RInt(128) /\ qOut.contrastValue = RInt(0)
        /\ qOut.isBlurry /\ qOut.isOutOfFocus /\ qOut.isLowContrast
        /\ qOut.sharpnessScore = 0 /\ qOut.lightingScore = 50
        /\ qOut.resolutionScore = 100 /\ qOut.colorScore = 100
        /\ qOut.overallQualityScore = 40

C5_Witness ==
    /\ QReturned
    /\ qIn.imageData = Uniform(1000, 1000, Gray(128))
    /\ qIn.options = DefaultOptions
    /\ qOut.resolutionWidth = 1000 /\ qOut.resolutionHeight = 1000

\* 0.40 * sharpness + 0.40 * lighting + 0.15 * resolution + 0.05 * color, of fractions
WeightedSum(sharpness, lighting, resolution, color) ==
    RDiv(RAdd(RAdd(RMul(RInt(40), sharpness), RMul(RInt(40), lighting)),
              RAdd(RMul(RInt(15), resolution), RMul(RInt(5), color))), RInt(100))

ReportedWeightedSum ==
    WeightedSum(RInt(qOut.sharpnessScore), RInt(qOut.lightingScore),
                RInt(qOut.resolutionScore), RInt(qOut.colorScore))

\* C6: the reported overall score is the weighted sum of the component scores
\* carried in the same report, rounded to the nearest integer.
C6_OverallFromReported ==
    QReturned => qOut.overallQualityScore = ToFixed0(ReportedWeightedSum)

\* C6, amended: the reported overall score is the weighted sum of the
\* component scores before they are rounded, rounded to the nearest integer;
\* it is less than 1 away from the weighted sum of the reported components.
C6_OverallFromUnrounded ==
    QReturned =>
        /\ qOut.overallQualityScore =
              ToFixed0(WeightedSum(qLocal.sharpnessScore, qLocal.lightingScore,
                                   RInt(qLocal.resolutionScore), qLocal.colorScore))
        /\ RLess(RAbs(RSub(RInt(qOut.overallQualityScore), ReportedWeightedSum)), RInt(1))

C6_Witness ==
    /\ QReturned
    /\ qOut.overallQualityScore # ToFixed0(ReportedWeightedSum)

\* C7: every report has its overall score and its four component scores
\* within 0..100, and resolutionScore is 0 when width < 600 or height < 400
\* and 100 otherwise.
C7_ScoresInRange ==
    QReturned =>
        /\ qOut.overallQualityScore \in 0..100
        /\ qOut.sharpnessScore \in 0..100
        /\ qOut.lightingScore \in 0..100
        /\ qOut.colorScore \in 0..100
        /\ qOut.resolutionScore =
              IF qIn.imageData.width < 600 \/ qIn.imageData.height < 400 THEN 0 ELSE 100

C7_Witness ==
    /\ QReturned
    /\ qOut.resolutionScore = 100
    /\ qOut.sharpnessScore = 100
    /\ qOut.lightingScore \in 1..99
    /\ RLess(RInt(BLUR_OPTIMAL), qLocal.raw.blurValue)

HasTip(t) == \E i \in 1..Len(qOut.tips) : qOut.tips[i] = t

\* the place of a tip in the fixed order
TipRank(t) ==
    CASE t = TipSteady -> 1
      [] t = TipDark -> 2
      [] t = TipDarkLowContrast -> 3
      [] t = TipGlare -> 4
      [] t = TipLowContrast -> 5
      [] t.text = "Resolution is low" -> 6
      [] t = TipGeneric -> 7
      [] OTHER -> 0

IsUniformGray(img) ==
    \E v \in 0..255 : \A c \in Cells(img) : img.tile[c] = Gray(v)

\* C9: for every picture whose pixels all are the same gray, of any level and
\* size, the report has isBlurry and isOutOfFocus and sharpnessScore = 0.
C9_UniformGrayNotSharp ==
    (QReturned /\ IsUniformGray(qIn.imageData)) =>
        /\ qOut.isBlurry
        /\ qOut.isOutOfFocus
        /\ qOut.sharpnessScore = 0

C9_Witness ==
    /\ QReturned
    /\ IsUniformGray(qIn.imageData)
    /\ qIn.imageData.width >= 3 /\ qIn.imageData.height >= 3
    /\ qIn.imageData.tile[0] = Gray(200)
    /\ qIn.options.blurThreshold = Defined(RInt(SliderMin))

(***************************************************************************)
(* The sharpness component score as a function of the Laplacian variance,  *)
(* for two analyses with the same gradient-magnitude mean.                 *)
(***************************************************************************)
MaxBlurSteps == 10
MaxFocusSteps == 12
BlurValues == {Frac(75 * k, 2) : k \in 0..MaxBlurSteps}
FocusValues == {Frac(5 * k, 2) : k \in 0..MaxFocusSteps}
SharpInputs ==
    {[b1 |-> p[1], b2 |-> p[2], focus |-> p[3]] :
        p \in {q \in BlurValues \X BlurValues \X FocusValues : ~RLess(q[2], q[1])}}

Sharpness ==
    /\ shIn # Idle
    /\ shOut = Idle
    /\ shOut' = [s1 |-> sharpnessScore(shIn.b1, shIn.focus),
                 s2 |-> sharpnessScore(shIn.b2, shIn.focus),
                 r1 |-> ToFixed0(sharpnessScore(shIn.b1, shIn.focus)),
                 r2 |-> ToFixed0(sharpnessScore(shIn.b2, shIn.focus))]
    /\ UNCHANGED shIn

InitSharpness ==
    /\ OcrIdle
    /\ IntegralIdle
    /\ FrameIdle
    /\ BoxIdle
    /\ PerspectiveIdle
    /\ SolveIdle
    /\ ClaheIdle
    /\ SobelIdle
    /\ CropIdle
    /\ ThrIdle
    /\ QualityIdle
    /\ shIn \in SharpInputs
    /\ shOut = Idle

NextSharpness == Sharpness /\ UNCHANGED <<cropVars, thrVars, qVars, sobVars, claheVars, solVars, ptVars, boxVars, frVars, iiVars, ocrVars>>

SpecSharpness == InitSharpness /\ [][NextSharpness]_vars

\* C10: with the same gradient-magnitude mean and Laplacian variances
\* b1 <= b2, the sharpness score for b2 is not lower than the one for b1,
\* before rounding and as reported.
C10_SharpnessMonotone ==
    shOut # Idle =>
        /\ ~RLess(shOut.s2, shOut.s1)
        /\ shOut.r1 <= shOut.r2

C10_Witness ==
    /\ shOut # Idle
    /\ RLess(shIn.b1, shIn.b2)
    /\ RLess(shIn.b2, RInt(BLUR_OPTIMAL))
    /\ RLess(shOut.s1, shOut.s2)

(***************************************************************************)
(* utils/imageAutoCrop.ts : sobel                                          *)
(*                                                                         *)
(* grayscale is a function on 0..width*height-1.  The magnitude of a pixel *)
(* is kept as its square Gx*Gx + Gy*Gy, an integer, and Math.sqrt is taken *)
(* where the code stores or compares it.                                   *)
(***************************************************************************)
Interior(width, height, i) ==
    /\ 1 <= i % width /\ i % width < width - 1
    /\ 1 <= i \div width /\ i \div width < height - 1

\* Gx (kernel sobelX) or Gy (kernel sobelY) at the interior pixel i
SobelG(grayscale, width, i, kernel) ==
    Sum([k \in 0..8 |->
            grayscale[((i \div width) + (k \div 3) - 1) * width + ((i % width) + (k % 3) - 1)]
            * kernel[(k \div 3) + 1][(k % 3) + 1]], 0, 8)

\* Gx * Gx + Gy * Gy at pixel i; the loops leave the border untouched
MagnitudeSq(grayscale, width, height, i) ==
    IF Interior(width, height, i)
    THEN SobelG(grayscale, width, i, sobelX) * SobelG(grayscale, width, i, sobelX)
         + SobelG(grayscale, width, i, sobelY) * SobelG(grayscale, width, i, sobelY)
    ELSE 0

\* the integer nearest to Math.sqrt(n), n a non-negative integer (the root
\* of an integer is never half-way between two integers)
RoundSqrt(n) == LET r == ISqrt(n) IN IF n > r * r + r THEN r + 1 ELSE r

\* edgeData[currentIdx] = magnitude: a store into a Uint8ClampedArray
StoreMagnitude(n) == Min(255, RoundSqrt(n))

\* the integer nearest to 255 * Math.sqrt(a), for a fraction a >= 0 that is
\* not the square of a fraction
RoundScaledRoot(a) == (ISqrt(FloorTimes(Frac(a.n * 510, a.d), 510)) + 1) \div 2

\* edgeData[i] = (edgeData[i] / maxMagnitude) * 255, where edgeData[i] holds
\* the stored value s and maxMagnitude is Math.sqrt(maxSq)
Normalize(s, maxSq) ==
    IF IsSquare(maxSq)
    THEN Min(255, ToUint8Clamped(Frac(255 * s, ISqrt(maxSq))))
    ELSE Min(255, RoundScaledRoot(Frac(s * s, maxSq)))

SobelLocals(grayscale, width, height) ==
    LET sq == [i \in 0..(width * height - 1) |-> MagnitudeSq(grayscale, width, height, i)]
    IN  [sq |-> sq, maxSq |-> MaxOf({sq[i] : i \in DOMAIN sq})]

sobelResult(loc) ==
    [edgeData |-> [i \in DOMAIN loc.sq |->
        IF loc.maxSq > 0 THEN Normalize(StoreMagnitude(loc.sq[i]), loc.maxSq)
        ELSE StoreMagnitude(loc.sq[i])]]

MaxBrightPixels == 2
SobelLevels == {0, 7, 255}
SobelSizes == {<<1, 1>>, <<2, 3>>, <<3, 2>>, <<3, 3>>, <<4, 3>>, <<3, 4>>, <<4, 4>>}

\* the buffers of n pixels that hold one background level but for at most k
\* pixels of other levels
SparseBuffers(n, levels, k) ==
    UNION {{[i \in 0..(n - 1) |-> IF i \in S THEN p[i] ELSE bg] :
                p \in [S -> levels], bg \in levels} : S \in SubsetsUpTo(n, k)}

SobelInputs(sizes, k) ==
    UNION {{[grayscale |-> g, width |-> sz[1], height |-> sz[2]] :
                g \in SparseBuffers(sz[1] * sz[2], SobelLevels, k)} : sz \in sizes}

sobel ==
    /\ sobIn # Idle
    /\ sobOut = Idle
    /\ sobLocal' = SobelLocals(sobIn.grayscale, sobIn.width, sobIn.height)
    /\ sobOut' = sobelResult(sobLocal')
    /\ UNCHANGED sobIn

InitSobel ==
    /\ OcrIdle
    /\ IntegralIdle
    /\ FrameIdle
    /\ BoxIdle
    /\ PerspectiveIdle
    /\ SolveIdle
    /\ ClaheIdle
    /\ CropIdle
    /\ ThrIdle
    /\ QualityIdle
    /\ SharpIdle
    /\ sobIn \in SobelInputs(SobelSizes, MaxBrightPixels)
    /\ sobLocal = Idle
    /\ sobOut = Idle

NextSobel == sobel /\ UNCHANGED <<cropVars, thrVars, qVars, shVars, claheVars, solVars, ptVars, boxVars, frVars, iiVars, ocrVars>>

SpecSobel == InitSobel /\ [][NextSobel]_vars

SobelPixels == 0..(sobIn.width * sobIn.height - 1)

\* the integers that round(255 * magnitude / maxMagnitude) can mean: the
\* nearest integer, either neighbour when the value is half-way
RoundedShare(n, maxSq) ==
    LET a == Frac(n, maxSq)
    IN  IF IsSquare(a.n) /\ IsSquare(a.d)
        THEN LET v == Frac(255 * ISqrt(a.n), ISqrt(a.d))
             IN  {ToUint8Clamped(v), ToFixed0(v)}
        ELSE {RoundScaledRoot(a)}

\* C11: every border pixel of the edge map is 0; when the largest interior
\* magnitude is 0 the map is all zero; otherwise the pixel with the largest
\* magnitude holds 255 and every other interior pixel holds
\* round(255 * magnitude / max).
C11_SobelRescaled ==
    sobOut # Idle =>
        \A i \in SobelPixels :
            /\ ~Interior(sobIn.width, sobIn.height, i) => sobOut.edgeData[i] = 0
            /\ sobLocal.maxSq = 0 => sobOut.edgeData[i] = 0
            /\ sobLocal.maxSq > 0 /\ sobLocal.sq[i] = sobLocal.maxSq => sobOut.edgeData[i] = 255
            /\ sobLocal.maxSq > 0 /\ Interior(sobIn.width, sobIn.height, i)
                    => sobOut.edgeData[i] \in RoundedShare(sobLocal.sq[i], sobLocal.maxSq)

(***************************************************************************)
(* utils/imagePreprocessing.ts : applyCLAHE                                *)
(*                                                                         *)
(* A histogram of 256 bins is kept by its non-empty bins: bins[v] is the   *)
(* content of bin v for the levels v that occur in the tile, and each is   *)
(* the content of every other bin.                                         *)
(***************************************************************************)
RECURSIVE RSum(_, _)
RSum(f, S) ==
    IF S = {} THEN RInt(0)
    ELSE LET v == CHOOSE v \in S : TRUE IN RAdd(f[v], RSum(f, S \ {v}))

TilePixels(width, x_start, y_start, tileWidth, tileHeight) ==
    {y * width + x : x \in x_start..(x_start + tileWidth - 1),
                     y \in y_start..(y_start + tileHeight - 1)}

calculateTileHistogram(grayscale, width, x_start, y_start, tileWidth, tileHeight) ==
    LET pixels == TilePixels(width, x_start, y_start, tileWidth, tileHeight)
    IN  [bins |-> [v \in {grayscale[p] : p \in pixels} |->
                        RInt(Cardinality({p \in pixels : grayscale[p] = v}))],
         each |-> RInt(0)]

\* the bins clipped and the excess dropped
clipHistogram(histogram, clipLimit, numPixelsInTile) ==
    LET actualClipLimit == RMul(clipLimit, Frac(numPixelsInTile, 256))
    IN  [bins |-> [i \in DOMAIN histogram.bins |-> RMin(histogram.bins[i], actualClipLimit)],
         each |-> RMin(histogram.each, actualClipLimit)]

clipAndRedistributeHistogram(histogram, clipLimit, numPixelsInTile) ==
    LET actualClipLimit == RMul(clipLimit, Frac(numPixelsInTile, 256))
        over == {i \in DOMAIN histogram.bins : RLess(actualClipLimit, histogram.bins[i])}
        others == 256 - Cardinality(DOMAIN histogram.bins)
        excess ==
            RAdd(RSum([i \in over |-> RSub(histogram.bins[i], actualClipLimit)], over),
                 IF RLess(actualClipLimit, histogram.each)
                 THEN RMul(RInt(others), RSub(histogram.each, actualClipLimit))
                 ELSE RInt(0))
        redistributionAmount == RDiv(excess, RInt(256))
    IN  [bins |-> [i \in DOMAIN histogram.bins |->
                        RAdd(RMin(histogram.bins[i], actualClipLimit), redistributionAmount)],
         each |-> RAdd(RMin(histogram.each, actualClipLimit), redistributionAmount)]

\* cumulative after bin i: the bins 0..i added up
Cumulative(histogram, i) ==
    LET below == {v \in DOMAIN histogram.bins : v <= i}
    IN  RAdd(RSum(histogram.bins, below),
             RMul(RInt(i + 1 - Cardinality(below)), histogram.each))

\* the array calculateCDF returns, kept at the indices in levels
calculateCDF(histogram, numPixelsInTile, levels) ==
    [i \in levels |-> RDiv(Cumulative(histogram, i), RInt(numPixelsInTile))]

DefaultClipLimit == 2
DefaultGridSize == 8

ClaheGridSize(options) == Coalesce(options.gridSize, DefaultGridSize).n

\* step 1 of applyCLAHE: the value of the local histogram of every tile when
\* it is handed to calculateCDF
Histograms(grayscale, width, height, options) ==
    LET clipLimit == Coalesce(options.clipLimit, DefaultClipLimit)
        gridSize == ClaheGridSize(options)
        tileWidth == width \div gridSize
        tileHeight == height \div gridSize
    IN  [gridY \in 0..(gridSize - 1) |-> [gridX \in 0..(gridSize - 1) |->
            clipAndRedistributeHistogram(
                calculateTileHistogram(grayscale, width, gridX * tileWidth,
                                       gridY * tileHeight, tileWidth, tileHeight),
                clipLimit, tileWidth * tileHeight)]]

\* step 1 of applyCLAHE: the CDF of every tile, at the levels that occur in
\* grayscale (step 2 reads no other index)
CdfMaps(grayscale, width, height, options) ==
    LET clipLimit == Coalesce(options.clipLimit, DefaultClipLimit)
        gridSize == ClaheGridSize(options)
        tileWidth == width \div gridSize
        tileHeight == height \div gridSize
        numPixelsInTile == tileWidth * tileHeight
        levels == {grayscale[p] : p \in DOMAIN grayscale}
    IN  [gridY \in 0..(gridSize - 1) |-> [gridX \in 0..(gridSize - 1) |->
            calculateCDF(
                clipAndRedistributeHistogram(
                    calculateTileHistogram(grayscale, width, gridX * tileWidth,
                                           gridY * tileHeight, tileWidth, tileHeight),
                    clipLimit, numPixelsInTile),
                numPixelsInTile, levels)]]

\* step 2 of applyCLAHE for the pixel (x, y): the bilinear interpolation and
\* the store into result
ClahePixel(grayscale, width, gridSize, tileWidth, tileHeight, cdfMaps, x, y) ==
    LET originalValue == grayscale[y * width + x]
        tileGridX == Min(gridSize - 1, x \div tileWidth)
        tileGridY == Min(gridSize - 1, y \div tileHeight)
        localX == Frac(x % tileWidth, tileWidth)
        localY == Frac(y % tileHeight, tileHeight)
        cdf_TL == cdfMaps[tileGridY][tileGridX]
        cdf_TR == IF tileGridX < gridSize - 1 THEN cdfMaps[tileGridY][tileGridX + 1] ELSE cdf_TL
        cdf_BL == IF tileGridY < gridSize - 1 THEN cdfMaps[tileGridY + 1][tileGridX] ELSE cdf_TL
        cdf_BR == IF tileGridY < gridSize - 1 /\ tileGridX < gridSize - 1
                  THEN cdfMaps[tileGridY + 1][tileGridX + 1] ELSE cdf_TL
        val_TL == RMul(cdf_TL[originalValue], RInt(255))
        val_TR == RMul(cdf_TR[originalValue], RInt(255))
        val_BL == RMul(cdf_BL[originalValue], RInt(255))
        val_BR == RMul(cdf_BR[originalValue], RInt(255))
        top_interp == RAdd(RMul(val_TL, RSub(RInt(1), localX)), RMul(val_TR, localX))
        bottom_interp == RAdd(RMul(val_BL, RSub(RInt(1), localX)), RMul(val_BR, localX))
        final_val == RAdd(RMul(top_interp, RSub(RInt(1), localY)), RMul(bottom_interp, localY))
    IN  ToUint8Clamped(RMax(RInt(0), RMin(RInt(255), final_val)))

ClaheSkipped(width, height, options) ==
    width \div ClaheGridSize(options) = 0 \/ height \div ClaheGridSize(options) = 0

\* applyCLAHE handing back the freshly allocated, still empty result when
\* the tiles are empty
applyCLAHEEmptyResult(grayscale, width, height, options, cdfMaps) ==
    IF ClaheSkipped(width, height, options)
    THEN [buffer |-> [i \in 0..(width * height - 1) |-> 0], returned |-> "result"]
    ELSE [buffer |-> [i \in 0..(width * height - 1) |->
                        ClahePixel(grayscale, width, ClaheGridSize(options),
                                   width \div ClaheGridSize(options),
                                   height \div ClaheGridSize(options),
                                   cdfMaps, i % width, i \div width)],
          returned |-> "result"]

\* what applyCLAHE returns: the buffer, and whether it is the object
\* grayscale itself or the newly allocated result
applyCLAHE(grayscale, width, height, options, cdfMaps) ==
    IF ClaheSkipped(width, height, options)
    THEN [buffer |-> grayscale, returned |-> "grayscale"]
    ELSE [buffer |-> [i \in 0..(width * height - 1) |->
                        ClahePixel(grayscale, width, ClaheGridSize(options),
                                   width \div ClaheGridSize(options),
                                   height \div ClaheGridSize(options),
                                   cdfMaps, i % width, i \div width)],
          returned |-> "result"]

\* the sliders of the scanner: grid 2..16 in steps of 2, clip limit 1.0..10.0
\* in steps of 0.5; both undefined when the caller gives no option. Other
\* callers may pass any clip limit: 0 clips every bin, and 128 leaves the
\* bins of at most half a tile alone
ClaheOptions ==
    {[clipLimit |-> Undefined, gridSize |-> Undefined],
     [clipLimit |-> Defined(RInt(0)), gridSize |-> Defined(RInt(2))],
     [clipLimit |-> Defined(RInt(128)), gridSize |-> Defined(RInt(2))],
     [clipLimit |-> Defined(RInt(1)), gridSize |-> Defined(RInt(2))],
     [clipLimit |-> Defined(Frac(5, 2)), gridSize |-> Defined(RInt(2))],
     [clipLimit |-> Defined(RInt(2)), gridSize |-> Defined(RInt(4))],
     [clipLimit |-> Defined(RInt(10)), gridSize |-> Defined(RInt(16))]}

ClaheLevels == {0, 100, 255}
ClaheSmallSizes == {<<1, 1>>, <<1, 4>>, <<2, 2>>, <<3, 2>>, <<4, 4>>, <<5, 3>>}
ClaheWideSizes == {<<9, 8>>}

\* the calls with a picture of the given sizes and at most k bright pixels
ClaheInputs(sizes, k) ==
    UNION {{[grayscale |-> g, width |-> sz[1], height |-> sz[2], options |-> o] :
                g \in SparseBuffers(sz[1] * sz[2], ClaheLevels, k),
                o \in ClaheOptions} : sz \in sizes}

CLAHE ==
    /\ claheIn # Idle
    /\ claheOut = Idle
    /\ claheLocal' = IF ClaheSkipped(claheIn.width, claheIn.height, claheIn.options) THEN Null
                     ELSE [histograms |-> Histograms(claheIn.grayscale, claheIn.width, claheIn.height,
                                                     claheIn.options),
                           cdfMaps |-> CdfMaps(claheIn.grayscale, claheIn.width, claheIn.height,
                                               claheIn.options)]
    /\ claheOut' = applyCLAHE(claheIn.grayscale, claheIn.width, claheIn.height, claheIn.options,
                              IF claheLocal' = Null THEN Null ELSE claheLocal'.cdfMaps)
    /\ UNCHANGED claheIn

InitCLAHE ==
    /\ OcrIdle
    /\ IntegralIdle
    /\ FrameIdle
    /\ BoxIdle
    /\ PerspectiveIdle
    /\ SolveIdle
    /\ SobelIdle
    /\ CropIdle
    /\ ThrIdle
    /\ QualityIdle
    /\ SharpIdle
    /\ claheIn \in ClaheInputs(ClaheSmallSizes, MaxBrightPixels)
                   \cup ClaheInputs(ClaheWideSizes, MaxWhitePixels)
    /\ claheLocal = Idle
    /\ claheOut = Idle

NextCLAHE == CLAHE /\ UNCHANGED <<cropVars, thrVars, qVars, shVars, sobVars, solVars, ptVars, boxVars, frVars, iiVars, ocrVars>>

SpecCLAHE == InitCLAHE /\ [][NextCLAHE]_vars

ClaheGrid == ClaheGridSize(claheIn.options)
ClaheSkips == claheIn.width \div ClaheGrid = 0 \/ claheIn.height \div ClaheGrid = 0

\* C12: when gridSize exceeds the width or the height, so that a tile
\* dimension is 0, applyCLAHE returns (without throwing) a buffer of the
\* input's length that equals the input at every pixel.
C12_ClaheSkipsUnchanged ==
    claheOut # Idle /\ ClaheSkips =>
        /\ DOMAIN claheOut.buffer = 0..(claheIn.width * claheIn.height - 1)
        /\ \A i \in DOMAIN claheOut.buffer : claheOut.buffer[i] = claheIn.grayscale[i]

C12_Witness ==
    /\ claheOut # Idle
    /\ ClaheSkips
    /\ claheIn.width >= ClaheGrid
    /\ \E i, j \in DOMAIN claheIn.grayscale : claheIn.grayscale[i] # claheIn.grayscale[j]

(***************************************************************************)
(* utils/imageTransformation.ts : solve                                    *)
(*                                                                         *)
(* A matrix is a function from the row index 0..n-1 to its row, a row a    *)
(* function from the column index to a fraction.  solve works on the       *)
(* caller's rows: the matrix it leaves behind is part of its result.       *)
(***************************************************************************)
\* Math.abs(a) < 1e-9 (a fraction of this model below 1e-9 has a numerator
\* of at most 2)
BelowEpsilon(a) == Abs(a.n) <= 2 /\ Abs(a.n) * 1000000000 < a.d

\* A[i].push(b[i]) for every row
Augment(A, b, n) ==
    [i \in 0..(n - 1) |-> [j \in 0..n |-> IF j < n THEN A[i][j] ELSE b[i]]]

\* the loop without the search: the pivot stays on the diagonal
FindMaxRowInPlace(M, i, n) == i

\* the pivot row for column i: the loop over k = i+1..n-1 moves on only to a
\* strictly larger magnitude, so it ends on the first of the largest
FindMaxRow(M, i, n) ==
    CHOOSE maxRow \in i..(n - 1) :
        /\ \A k \in i..(n - 1) : ~RLess(RAbs(M[maxRow][i]), RAbs(M[k][i]))
        /\ \A k \in i..(maxRow - 1) : RLess(RAbs(M[k][i]), RAbs(M[maxRow][i]))

SwapRows(M, i, maxRow) ==
    [k \in DOMAIN M |-> IF k = i THEN M[maxRow] ELSE IF k = maxRow THEN M[i] ELSE M[k]]

\* A[i][j] /= pivot for j = i..n
NormalizeRow(M, i, n) ==
    [M EXCEPT ![i] = [j \in 0..n |-> IF j >= i THEN RDiv(M[i][j], M[i][i]) ELSE M[i][j]]]

\* A[k][j] -= factor * A[i][j] for every other row k and j = i..n
EliminateRows(M, i, n) ==
    [k \in DOMAIN M |->
        IF k = i THEN M[i]
        ELSE [j \in 0..n |-> IF j >= i THEN RSub(M[k][j], RMul(M[k][i], M[i][j]))
                             ELSE M[k][j]]]

\* one turn of the loop over the pivot columns, on the augmented matrix M:
\* the matrix it leaves, whether the singularity test returned null, and
\* the pivot row taken with the magnitudes it was taken from
PivotStep(M, i, n) ==
    LET maxRow == FindMaxRow(M, i, n)
        swapped == SwapRows(M, i, maxRow)
    IN  [A |-> IF BelowEpsilon(swapped[i][i]) THEN swapped
               ELSE EliminateRows(NormalizeRow(swapped, i, n), i, n),
         singular |-> BelowEpsilon(swapped[i][i]),
         pick |-> [column |-> i, maxRow |-> maxRow,
                   values |-> [k \in i..(n - 1) |-> RAbs(M[k][i])]]]

MaxSolveEntry == 2
SolveEntries == (-MaxSolveEntry)..MaxSolveEntry

Matrix(rows) == [i \in 0..(Len(rows) - 1) |-> [j \in 0..(Len(rows[i + 1]) - 1) |-> RInt(rows[i + 1][j + 1])]]
Vector(s) == [i \in 0..(Len(s) - 1) |-> RInt(s[i + 1])]

Rows3 == {<<1, 0, 0>>, <<0, 1, 0>>, <<0, 0, 1>>, <<1, 1, 0>>, <<0, 2, 1>>,
          <<1, 2, 3>>, <<2, 4, 6>>, <<0, 0, 0>>, <<-3, 2, 0>>}

\* 1 x 1 systems (one below 1e-9 without being singular), all 2 x 2 systems
\* with entries in SolveEntries, and 3 x 3 systems built from Rows3
SolveInputs(entries, rows) ==
    {[A |-> [i \in {0} |-> [j \in {0} |-> a]], b |-> Vector(<<v>>)] :
        a \in {RInt(0), RInt(2), Frac(-1, 3), Frac(1, 2000000000), Frac(1, 1000000000)},
        v \in {0, 1}}
    \cup
    {[A |-> Matrix(<<<<e[1], e[2]>>, <<e[3], e[4]>>>>), b |-> Vector(v)] :
        e \in entries \X entries \X entries \X entries,
        v \in {<<0, 0>>, <<1, 0>>, <<3, -5>>}}
    \cup
    {[A |-> Matrix(<<r[1], r[2], r[3]>>), b |-> Vector(v)] :
        r \in rows \X rows \X rows, v \in {<<0, 0, 0>>, <<1, 2, 3>>, <<1, -1, 4>>}}

SolveN == Cardinality(DOMAIN solIn.A)

\* lines 460-464: n and the augmentation of the caller's rows
SolveAugment ==
    /\ solPc = "called"
    /\ solPc' = "loop"
    /\ solHeap' = [solHeap EXCEPT !.A = Augment(solHeap.A, solHeap.b, SolveN)]
    /\ solLocal' = [i |-> 0, chosen |-> <<>>]
    /\ UNCHANGED <<solIn, solOut>>

\* lines 467-497: one pivot column
SolvePivot ==
    /\ solPc = "loop"
    /\ solLocal.i < SolveN
    /\ LET step == PivotStep(solHeap.A, solLocal.i, SolveN)
       IN  /\ solHeap' = [solHeap EXCEPT !.A = step.A]
           /\ solLocal' = [i |-> solLocal.i + 1, chosen |-> Append(solLocal.chosen, step.pick)]
           /\ IF step.singular
              THEN solPc' = "done" /\ solOut' = [x |-> Null]
              ELSE UNCHANGED <<solPc, solOut>>
    /\ UNCHANGED solIn

\* lines 500-506: the last column, copied into a new array
SolveReturn ==
    /\ solPc = "loop"
    /\ solLocal.i >= SolveN
    /\ solPc' = "done"
    /\ solOut' = [x |-> [x |-> [i \in 0..(SolveN - 1) |-> solHeap.A[i][SolveN]]]]
    /\ UNCHANGED <<solIn, solHeap, solLocal>>

solve == SolveAugment \/ SolvePivot \/ SolveReturn

InitSolve ==
    /\ OcrIdle
    /\ IntegralIdle
    /\ FrameIdle
    /\ BoxIdle
    /\ ClaheIdle
    /\ SobelIdle
    /\ CropIdle
    /\ ThrIdle
    /\ QualityIdle
    /\ SharpIdle
    /\ PerspectiveIdle
    /\ solPc = "called"
    /\ solIn \in SolveInputs(SolveEntries, Rows3)
    /\ solHeap = solIn
    /\ solLocal = Idle
    /\ solOut = Idle

NextSolve == solve /\ UNCHANGED <<cropVars, thrVars, qVars, shVars, sobVars, claheVars, ptVars, boxVars, frVars, iiVars, ocrVars>>

SpecSolve == InitSolve /\ [][NextSolve]_vars

\* the determinant of the leading rows of A over the columns cols, by
\* expansion along the last row
RECURSIVE Det(_, _, _)
Det(A, k, cols) ==
    IF k = 0 THEN RInt(1)
    ELSE RSum([c \in cols |->
                 RMul(RMul(RInt(IF (Cardinality({d \in cols : d > c})) % 2 = 0 THEN 1 ELSE -1),
                           A[k - 1][c]),
                      Det(A, k - 1, cols \ {c}))], cols)

\* row i of A times x
RowTimes(A, x, i) == RSum([j \in DOMAIN x |-> RMul(A[i][j], x[j])], DOMAIN x)

\* C15: at each pivot column i solve takes, among the rows i..n-1, a row
\* whose entry in column i is largest in absolute value; it returns null
\* exactly when the entry of a chosen row is below 1e-9 in absolute value,
\* which happens for every singular A (and only for singular A when the
\* entries are integers); otherwise it returns x of length n with
\* A * x = b for the A and b passed.
C15_SolvePivotsAndSolution ==
    solPc = "done" =>
        /\ \A p \in 1..Len(solLocal.chosen) :
             LET pick == solLocal.chosen[p]
             IN  /\ pick.column = p - 1
                 /\ pick.maxRow \in pick.column..(SolveN - 1)
                 /\ \A k \in DOMAIN pick.values :
                        ~RLess(pick.values[pick.maxRow], pick.values[k])
        /\ (solOut.x = Null) <=>
               \E p \in 1..Len(solLocal.chosen) :
                   BelowEpsilon(solLocal.chosen[p].values[solLocal.chosen[p].maxRow])
        /\ Det(solIn.A, SolveN, 0..(SolveN - 1)).n = 0 => solOut.x = Null
        /\ (\A i, j \in 0..(SolveN - 1) : solIn.A[i][j].d = 1) /\ solOut.x = Null
               => Det(solIn.A, SolveN, 0..(SolveN - 1)).n = 0
        /\ solOut.x # Null =>
               /\ DOMAIN solOut.x.x = 0..(SolveN - 1)
               /\ \A i \in 0..(SolveN - 1) : RowTimes(solIn.A, solOut.x.x, i) = solIn.b[i]

\* a 3 x 3 system that needed a row swap and was solved
C15_Witness ==
    /\ solPc = "done"
    /\ SolveN = 3
    /\ solOut.x # Null
    /\ \E p \in 1..Len(solLocal.chosen) : solLocal.chosen[p].maxRow # solLocal.chosen[p].column

(***************************************************************************)
(* utils/imageTransformation.ts : applyPerspectiveTransform                *)
(*                                                                         *)
(* A point is a record [x, y] of integers.  The image is the decoded       *)
(* source: width, height and the RGBA bytes getImageData returns.  The     *)
(* onload callback is followed statement by statement: ptPc says where it  *)
(* stands, ptOut lists the calls of resolve and reject made so far.        *)
(***************************************************************************)
\* the square of Math.hypot(q.x - p.x, q.y - p.y)
HypotSq(p, q) == (q.x - p.x) * (q.x - p.x) + (q.y - p.y) * (q.y - p.y)

\* Math.sqrt(a) + Math.sqrt(b) >= k, for integers a, b >= 0
SumRootsAtLeast(a, b, k) ==
    \/ k <= 0
    \/ k * k <= a + b
    \/ 4 * a * b >= (k * k - a - b) * (k * k - a - b)

\* Math.round((Math.sqrt(a) + Math.sqrt(b)) / 2)
RoundMeanRoots(a, b) ==
    MaxOf({r \in 0..(ISqrt(a) + ISqrt(b) + 2) : SumRootsAtLeast(a, b, 2 * r - 1)})

outputWidth(sp) == RoundMeanRoots(HypotSq(sp.tl, sp.tr), HypotSq(sp.bl, sp.br))
outputHeight(sp) == RoundMeanRoots(HypotSq(sp.tl, sp.bl), HypotSq(sp.tr, sp.br))

\* the rows of A for one correspondence: destination (u, v), source s
RowX(u, v, s) == <<u, v, 1, 0, 0, 0, -s.x * u, -s.x * v>>
RowY(u, v, s) == <<0, 0, 0, u, v, 1, -s.y * u, -s.y * v>>

SystemA(sp, w, h) ==
    Matrix(<<RowX(0, 0, sp.tl), RowX(w, 0, sp.tr), RowX(w, h, sp.br), RowX(0, h, sp.bl),
             RowY(0, 0, sp.tl), RowY(w, 0, sp.tr), RowY(w, h, sp.br), RowY(0, h, sp.bl)>>)
SystemB(sp) ==
    Vector(<<sp.tl.x, sp.tr.x, sp.br.x, sp.bl.x, sp.tl.y, sp.tr.y, sp.br.y, sp.bl.y>>)

\* the source coordinate of the destination pixel (u, v); the division by a
\* zero denominator gives no finite coordinate
Denominator(h, u, v) == RAdd(RAdd(RMul(h[6], RInt(u)), RMul(h[7], RInt(v))), RInt(1))
SourceX(h, u, v) ==
    RDiv(RAdd(RAdd(RMul(h[0], RInt(u)), RMul(h[1], RInt(v))), h[2]), Denominator(h, u, v))
SourceY(h, u, v) ==
    RDiv(RAdd(RAdd(RMul(h[3], RInt(u)), RMul(h[4], RInt(v))), h[5]), Denominator(h, u, v))

\* the test with the first column and the first row left out as well
SampledPastOrigin(h, u, v, width, height) ==
    /\ Denominator(h, u, v).n # 0
    /\ RFloor(SourceX(h, u, v)) > 0 /\ RFloor(SourceX(h, u, v)) < width - 1
    /\ RFloor(SourceY(h, u, v)) > 0 /\ RFloor(SourceY(h, u, v)) < height - 1

\* line 599: the test on x_floor and y_floor
Sampled(h, u, v, width, height) ==
    /\ Denominator(h, u, v).n # 0
    /\ RFloor(SourceX(h, u, v)) >= 0 /\ RFloor(SourceX(h, u, v)) < width - 1
    /\ RFloor(SourceY(h, u, v)) >= 0 /\ RFloor(SourceY(h, u, v)) < height - 1

\* the nearest pixel taken for the interpolation
InterpolatedNearest(h, u, v, image, channel) ==
    image.data[(RFloor(SourceY(h, u, v)) * image.width + RFloor(SourceX(h, u, v))) * 4 + channel]

\* destData[dest_idx + channel] for the sampled pixel (u, v)
Interpolated(h, u, v, image, channel) ==
    LET x == SourceX(h, u, v)
        y == SourceY(h, u, v)
        x_floor == RFloor(x)
        y_floor == RFloor(y)
        x_frac == RSub(x, RInt(x_floor))
        y_frac == RSub(y, RInt(y_floor))
        val00 == RInt(image.data[(y_floor * image.width + x_floor) * 4 + channel])
        val10 == RInt(image.data[(y_floor * image.width + (x_floor + 1)) * 4 + channel])
        val01 == RInt(image.data[((y_floor + 1) * image.width + x_floor) * 4 + channel])
        val11 == RInt(image.data[((y_floor + 1) * image.width + (x_floor + 1)) * 4 + channel])
        interp_top == RAdd(RMul(val00, RSub(RInt(1), x_frac)), RMul(val10, x_frac))
        interp_bottom == RAdd(RMul(val01, RSub(RInt(1), x_frac)), RMul(val11, x_frac))
        final_val == RAdd(RMul(interp_top, RSub(RInt(1), y_frac)), RMul(interp_bottom, y_frac))
    IN  ToUint8Clamped(final_val)

\* one turn of the inner loop: destData after the pixel (u, v)
WritePixel(destData, h, u, v, w, image) ==
    IF Sampled(h, u, v, image.width, image.height)
    THEN [k \in DOMAIN destData |->
            IF k \div 4 = v * w + u THEN Interpolated(h, u, v, image, k % 4) ELSE destData[k]]
    ELSE destData

Settle(call) == ptOut' = Append(ptOut, call)
Rejected(why) == [rejected |-> why]
Resolved(data, w, h) == [resolved |-> [data |-> data, width |-> w, height |-> h]]

\* image.onerror
PtError ==
    /\ ptPc = "loading" /\ ~ptIn.loads
    /\ ptPc' = "done"
    /\ Settle(Rejected("load"))
    /\ UNCHANGED <<ptIn, ptLocal, ptDest, solVars>>

\* image.onload, step 1: the output dimensions
PtLoad ==
    /\ ptPc = "loading" /\ ptIn.loads
    /\ ptLocal' = [ptLocal EXCEPT !.outputWidth = outputWidth(ptIn.sourcePoints),
                                  !.outputHeight = outputHeight(ptIn.sourcePoints)]
    /\ IF ptLocal'.outputWidth < 1 \/ ptLocal'.outputHeight < 1
       THEN ptPc' = "done" /\ Settle(Rejected("zero-sized"))
       ELSE ptPc' = "system" /\ UNCHANGED ptOut
    /\ UNCHANGED <<ptIn, ptDest, solVars>>

\* step 2: A and b are built and solve(A, b) is called
PtSolve ==
    /\ ptPc = "system"
    /\ ptPc' = "solving"
    /\ ptLocal' = [ptLocal EXCEPT !.built = TRUE]
    /\ solIn' = [A |-> SystemA(ptIn.sourcePoints, ptLocal.outputWidth, ptLocal.outputHeight),
                 b |-> SystemB(ptIn.sourcePoints)]
    /\ solHeap' = solIn'
    /\ solPc' = "called"
    /\ UNCHANGED <<ptIn, ptDest, ptOut, solLocal, solOut>>

\* solve works while the callback waits for its result
PtSolving ==
    /\ ptPc = "solving"
    /\ solve
    /\ UNCHANGED ptVars

\* the result of solve taken without the test for null
PtSolvedUnchecked ==
    /\ ptPc = "solving" /\ solPc = "done"
    /\ ptLocal' = [ptLocal EXCEPT !.h = solOut.x]
    /\ ptPc' = "canvas"
    /\ UNCHANGED <<ptIn, ptDest, ptOut, solVars>>

\* h = solve(A, b) has returned
PtSolved ==
    /\ ptPc = "solving" /\ solPc = "done"
    /\ ptLocal' = [ptLocal EXCEPT !.h = solOut.x]
    /\ IF solOut.x = Null
       THEN ptPc' = "done" /\ Settle(Rejected("singular"))
       ELSE ptPc' = "canvas" /\ UNCHANGED ptOut
    /\ UNCHANGED <<ptIn, ptDest, solVars>>

\* step 3: the two canvases and destData, all zero
PtCanvas ==
    /\ ptPc = "canvas"
    /\ IF ~ptIn.sourceCtx
       THEN ptPc' = "done" /\ Settle(Rejected("source context")) /\ UNCHANGED ptDest
       ELSE IF ~ptIn.destCtx
       THEN ptPc' = "done" /\ Settle(Rejected("destination context")) /\ UNCHANGED ptDest
       ELSE /\ ptPc' = "pixels"
            /\ ptDest' = [k \in 0..(ptLocal.outputWidth * ptLocal.outputHeight * 4 - 1) |-> 0]
            /\ UNCHANGED ptOut
    /\ UNCHANGED <<ptIn, ptLocal, solVars>>

\* step 4: one destination pixel, row by row
PtPixel ==
    /\ ptPc = "pixels"
    /\ ptLocal.next < ptLocal.outputWidth * ptLocal.outputHeight
    /\ ptDest' = WritePixel(ptDest, ptLocal.h.x, ptLocal.next % ptLocal.outputWidth,
                            ptLocal.next \div ptLocal.outputWidth, ptLocal.outputWidth,
                            ptIn.image)
    /\ ptLocal' = [ptLocal EXCEPT !.next = @ + 1]
    /\ UNCHANGED <<ptPc, ptIn, ptOut, solVars>>

\* resolve called without waiting for the loop to end
PtResolveEarly ==
    /\ ptPc = "pixels"
    /\ ptPc' = "done"
    /\ Settle(Resolved(ptDest, ptLocal.outputWidth, ptLocal.outputHeight))
    /\ UNCHANGED <<ptIn, ptLocal, ptDest, solVars>>

\* putImageData and resolve(destCanvas.toDataURL(...)), the picture taken as
\* the bytes put on the canvas
PtResolve ==
    /\ ptPc = "pixels"
    /\ ptLocal.next >= ptLocal.outputWidth * ptLocal.outputHeight
    /\ ptPc' = "done"
    /\ Settle(Resolved(ptDest, ptLocal.outputWidth, ptLocal.outputHeight))
    /\ UNCHANGED <<ptIn, ptLocal, ptDest, solVars>>

MaxCoord == 2
Point(x, y) == [x |-> x, y |-> y]
Quad(tl, tr, br, bl) == [tl |-> tl, tr |-> tr, br |-> br, bl |-> bl]
GridPoints == {Point(x, y) : x \in 0..MaxCoord, y \in 0..MaxCoord}
Collinear(p, q, r) == (q.x - p.x) * (r.y - p.y) = (q.y - p.y) * (r.x - p.x)

CollinearQuads(points) ==
    {Quad(q[1], q[2], q[3], q[4]) :
        q \in {t \in points \X points \X points \X points :
                  /\ Collinear(t[1], t[2], t[3]) /\ Collinear(t[1], t[2], t[4])
                  /\ Collinear(t[1], t[3], t[4]) /\ Collinear(t[2], t[3], t[4])}}

\* the axis-aligned rectangles with integer corners inside a width x height image
Rectangles(width, height) ==
    {Quad(Point(r[1], r[2]), Point(r[1] + r[3], r[2]),
          Point(r[1] + r[3], r[2] + r[4]), Point(r[1], r[2] + r[4])) :
        r \in {t \in (0..width) \X (0..height) \X (1..width) \X (1..height) :
                  t[1] + t[3] <= width /\ t[2] + t[4] <= height}}

SkewedQuads ==
    {Quad(Point(0, 0), Point(2, 0), Point(3, 2), Point(0, 2)),
     Quad(Point(1, 0), Point(3, 1), Point(2, 2), Point(0, 1)),
     Quad(Point(0, 0), Point(2, 1), Point(2, 2), Point(0, 2)),
     Quad(Point(0, 0), Point(3, 0), Point(3, 3), Point(0, 2)),
     Quad(Point(2, 0), Point(0, 0), Point(0, 2), Point(2, 2)),
     Quad(Point(0, 0), Point(2, 0), Point(1, 0), Point(0, 2)),
     Quad(Point(0, 0), Point(0, 1), Point(1, 0), Point(0, 2))}

\* a picture whose bytes differ from pixel to pixel and channel to channel
PtImage(width, height) ==
    [width |-> width, height |-> height,
     data |-> [k \in 0..(width * height * 4 - 1) |-> (37 * (k \div 4) + 59 * (k % 4) + 11) % 256]]
PtImages == {PtImage(4, 3), PtImage(3, 3)}

PtEnvs ==
    {[loads |-> TRUE, sourceCtx |-> TRUE, destCtx |-> TRUE],
     [loads |-> FALSE, sourceCtx |-> TRUE, destCtx |-> TRUE],
     [loads |-> TRUE, sourceCtx |-> FALSE, destCtx |-> TRUE],
     [loads |-> TRUE, sourceCtx |-> TRUE, destCtx |-> FALSE]}

PtInputs(images) ==
    {[sourcePoints |-> sp, image |-> img, loads |-> env.loads,
      sourceCtx |-> env.sourceCtx, destCtx |-> env.destCtx] :
        sp \in CollinearQuads(GridPoints) \cup SkewedQuads, img \in images, env \in PtEnvs}
    \cup
    UNION {{[sourcePoints |-> sp, image |-> img, loads |-> env.loads,
             sourceCtx |-> env.sourceCtx, destCtx |-> env.destCtx] :
                sp \in Rectangles(img.width, img.height), env \in PtEnvs} : img \in images}

InitPerspective ==
    /\ OcrIdle
    /\ IntegralIdle
    /\ FrameIdle
    /\ BoxIdle
    /\ SolveIdle
    /\ ClaheIdle
    /\ SobelIdle
    /\ CropIdle
    /\ ThrIdle
    /\ QualityIdle
    /\ SharpIdle
    /\ ptPc = "loading"
    /\ ptIn \in PtInputs(PtImages)
    /\ ptLocal = [outputWidth |-> 0, outputHeight |-> 0, built |-> FALSE, h |-> Idle, next |-> 0]
    /\ ptDest = Idle
    /\ ptOut = <<>>

NextPerspective ==
    (PtError \/ PtLoad \/ PtSolve \/ PtSolving \/ PtSolved \/ PtCanvas \/ PtPixel \/ PtResolve)
    /\ UNCHANGED <<cropVars, thrVars, qVars, shVars, sobVars, claheVars, boxVars, frVars, iiVars, ocrVars>>

SpecPerspective == InitPerspective /\ [][NextPerspective]_vars

AllCollinear(sp) ==
    /\ Collinear(sp.tl, sp.tr, sp.br) /\ Collinear(sp.tl, sp.tr, sp.bl)
    /\ Collinear(sp.tl, sp.br, sp.bl) /\ Collinear(sp.tr, sp.br, sp.bl)

IsRejection(call) == "rejected" \in DOMAIN call
IsResolution(call) == "resolved" \in DOMAIN call

IsRectangle(sp) ==
    /\ sp.tr.x > sp.tl.x /\ sp.bl.y > sp.tl.y
    /\ sp.tr.y = sp.tl.y /\ sp.bl.x = sp.tl.x
    /\ sp.br.x = sp.tr.x /\ sp.br.y = sp.bl.y

InsideSource(sp, image) ==
    /\ sp.tl.x >= 0 /\ sp.tl.y >= 0
    /\ sp.br.x <= image.width /\ sp.br.y <= image.height

PtResolved == ptPc = "done" /\ Len(ptOut) = 1 /\ IsResolution(ptOut[1])

\* the destination pixel (u, v) equals the source pixel (x, y) on the four channels
SamePixel(out, u, v, image, x, y) ==
    \A channel \in 0..3 :
        out.data[(v * out.width + u) * 4 + channel]
            = image.data[(y * image.width + x) * 4 + channel]

\* C14: for an axis-aligned rectangle with integer corners inside the
\* source, touching its right or bottom edge or not, the picture resolved
\* is the w x h crop: pixel (u, v) equals source pixel (x0 + u, y0 + v) on
\* all four channels.
C14_RectangleIsCrop ==
    PtResolved /\ IsRectangle(ptIn.sourcePoints) /\ InsideSource(ptIn.sourcePoints, ptIn.image) =>
        LET sp == ptIn.sourcePoints
            out == ptOut[1].resolved
        IN  /\ out.width = sp.tr.x - sp.tl.x
            /\ out.height = sp.bl.y - sp.tl.y
            /\ \A u \in 0..(out.width - 1), v \in 0..(out.height - 1) :
                   SamePixel(out, u, v, ptIn.image, sp.tl.x + u, sp.tl.y + v)

\* the rectangle keeps off the last column and the last row of the source
OffLastColumnAndRow(sp, image) ==
    sp.br.x <= image.width - 1 /\ sp.br.y <= image.height - 1

\* C14 (amended): for an axis-aligned rectangle with integer corners inside
\* the source that does not reach the source's last column or last row,
\* the picture resolved is the w x h crop: pixel (u, v) equals source pixel
\* (x0 + u, y0 + v) on all four channels.
C14_InteriorRectangleIsCrop ==
    /\ PtResolved
    /\ IsRectangle(ptIn.sourcePoints)
    /\ InsideSource(ptIn.sourcePoints, ptIn.image)
    /\ OffLastColumnAndRow(ptIn.sourcePoints, ptIn.image)
    => LET sp == ptIn.sourcePoints
           out == ptOut[1].resolved
       IN  /\ out.width = sp.tr.x - sp.tl.x
           /\ out.height = sp.bl.y - sp.tl.y
           /\ \A u \in 0..(out.width - 1), v \in 0..(out.height - 1) :
                  SamePixel(out, u, v, ptIn.image, sp.tl.x + u, sp.tl.y + v)

C14_Witness ==
    /\ PtResolved
    /\ IsRectangle(ptIn.sourcePoints)
    /\ InsideSource(ptIn.sourcePoints, ptIn.image)
    /\ OffLastColumnAndRow(ptIn.sourcePoints, ptIn.image)
    /\ ptIn.sourcePoints.tl.x > 0
    /\ ptOut[1].resolved.width * ptOut[1].resolved.height >= 4

PtPixelCount == ptLocal.outputWidth * ptLocal.outputHeight

PtSettledOnce ==
    /\ Len(ptOut) <= 1
    /\ (ptPc = "done") <=> (Len(ptOut) = 1)
    \* a zero-sized output is rejected before A and b exist
    /\ ptPc # "loading" /\ ptIn.loads /\ (ptLocal.outputWidth < 1 \/ ptLocal.outputHeight < 1)
          => ptOut = <<Rejected("zero-sized")>> /\ ~ptLocal.built /\ solPc = "idle"
    \* a null from solve is rejected before destData exists
    /\ ptLocal.h = Null
          => ptOut = <<Rejected("singular")>> /\ ptDest = Idle /\ ptLocal.next = 0
    \* every rejection names one of the failures, and leaves no picture
    /\ \A k \in DOMAIN ptOut : IsRejection(ptOut[k]) =>
          /\ ptOut[k].rejected \in {"load", "zero-sized", "singular", "source context",
                                    "destination context"}
          /\ ptDest = Idle
    \* a picture is resolved only after the last destination pixel
    /\ \A k \in DOMAIN ptOut : IsResolution(ptOut[k]) =>
          /\ ptLocal.outputWidth >= 1 /\ ptLocal.outputHeight >= 1
          /\ ptLocal.h # Null
          /\ ptLocal.next = PtPixelCount
          /\ ptOut[k].resolved.data = ptDest

OutlineValues == {edgePixelThreshold, edgePixelThreshold + 1, 255}
OutlineSizes == {<<11, 5>>, <<21, 3>>, <<10, 3>>, <<2, 2>>}

OutlineMaps(sizes) ==
    UNION {{[width |-> sz[1], height |-> sz[2], strokes |-> Outline(q[1], q[2], q[3], q[4], v),
             L |-> q[1], R |-> q[2], T |-> q[3], B |-> q[4], v |-> v] :
               q \in {r \in (0..(sz[1] - 1)) \X (0..(sz[1] - 1)) \X (0..(sz[2] - 1)) \X (0..(sz[2] - 1)) :
                         r[1] <= r[2] /\ r[3] <= r[4]},
               v \in OutlineValues} : sz \in sizes}

BoundingBox ==
    /\ boxIn # Idle
    /\ boxOut = Idle
    /\ boxOut' = [bounds |-> BoxBounds(boxIn), box |-> findBoundingBox(boxIn)]
    /\ UNCHANGED boxIn

InitBoundingBox ==
    /\ OcrIdle
    /\ IntegralIdle
    /\ FrameIdle
    /\ PerspectiveIdle
    /\ SolveIdle
    /\ ClaheIdle
    /\ SobelIdle
    /\ CropIdle
    /\ ThrIdle
    /\ QualityIdle
    /\ SharpIdle
    /\ boxIn \in OutlineMaps(OutlineSizes)
    /\ boxOut = Idle

NextBoundingBox == BoundingBox /\ UNCHANGED <<cropVars, thrVars, qVars, shVars, sobVars, claheVars, solVars, ptVars, frVars, iiVars, ocrVars>>

SpecBoundingBox == InitBoundingBox /\ [][NextBoundingBox]_vars

\* the outline is a proper rectangle over the threshold whose horizontal
\* sides cover more than 10% of the width and whose vertical sides cover
\* more than 10% of the height
CardOutline ==
    /\ boxIn.T < boxIn.B /\ boxIn.L < boxIn.R
    /\ boxIn.v > 50
    /\ (boxIn.R - boxIn.L + 1) * 10 > boxIn.width
    /\ (boxIn.B - boxIn.T + 1) * 10 > boxIn.height

\* C17: on an edge map that is zero except for such an outline,
\* findBoundingBox returns x = L, y = T, width = R - L, height = B - T.
C17_OutlineBounds ==
    boxOut # Idle /\ CardOutline =>
        boxOut.box = [x |-> boxIn.L, y |-> boxIn.T,
                      width |-> boxIn.R - boxIn.L, height |-> boxIn.B - boxIn.T]

\* an outline off the border whose inner rows are not dense themselves
C17_Witness ==
    /\ boxOut # Idle /\ CardOutline
    /\ boxIn.width = 21 /\ boxIn.L = 3 /\ boxIn.R = 9 /\ boxIn.T = 0 /\ boxIn.B = 2
    /\ boxOut.box # Null

(***************************************************************************)
(* The operations that convolve with a 3 x 3 kernel, called on pictures    *)
(* too small for it: analyzeImageQuality (with calculateLaplacianVariance  *)
(* and calculateGradientMagnitude) on the pictures of at most              *)
(* MaxSmallSide pixels a side, and sobel on its own inputs.                *)
(***************************************************************************)
InitSmallKernel ==
    \/ /\ InitQuality
       /\ qIn.imageData.width <= MaxSmallSide
       /\ qIn.imageData.height <= MaxSmallSide
    \/ InitSobel

NextSmallKernel == NextQuality \/ NextSobel

SpecSmallKernel == InitSmallKernel /\ [][NextSmallKernel]_vars

\* width < 3 || height < 3
TooSmallForKernel(width, height) == width < 3 \/ height < 3

QualityOnSmall == qOut # Idle /\ TooSmallForKernel(qIn.imageData.width, qIn.imageData.height)
SobelOnSmall == sobOut # Idle /\ TooSmallForKernel(sobIn.width, sobIn.height)

\* C20: a picture with width < 3 or height < 3 yields an explicit failure
\* from the operations that convolve it, and no report and no edge map is
\* produced.
C20_SmallImageFails ==
    /\ QualityOnSmall => "overallQualityScore" \notin DOMAIN qOut
    /\ SobelOnSmall => "edgeData" \notin DOMAIN sobOut

\* C20 (amended): on such a picture no operation fails: the Laplacian
\* variance and the gradient magnitude are 0, analyzeImageQuality returns a
\* complete report with blurValue 0, focusValue 0 and sharpnessScore 0, and
\* sobel returns an edge map of the input's length that is 0 everywhere.
C20_SmallImageZero ==
    /\ QualityOnSmall =>
          /\ qLocal.raw.blurValue = RInt(0)
          /\ qLocal.raw.focusValue = RInt(0)
          /\ qOut = Report(qIn.imageData, qLocal)
          /\ qOut.blurValue = RInt(0) /\ qOut.focusValue = RInt(0)
          /\ qOut.sharpnessScore = 0
    /\ SobelOnSmall =>
          /\ DOMAIN sobOut.edgeData = 0..(sobIn.width * sobIn.height - 1)
          /\ \A i \in DOMAIN sobOut.edgeData : sobOut.edgeData[i] = 0

\* a report on a 2 x 2 picture of two colours
C20_Witness ==
    /\ QualityOnSmall
    /\ qIn.imageData.width = 2 /\ qIn.imageData.height = 2
    /\ qIn.imageData.tw = 2
    /\ qOut.overallQualityScore > 0

(***************************************************************************)
(* utils/imagePreprocessing.ts : applyMedianFilter, applySharpening        *)
(***************************************************************************)
\* the window of pixel (x, y), coordinates clamped to the image
MedianWindow(grayscale, width, height, x, y, halfKernel) ==
    LET side == 2 * halfKernel + 1
    IN  [k \in 0..(side * side - 1) |->
            LET newY == Min(height - 1, Max(0, y + (k \div side) - halfKernel))
                newX == Min(width - 1, Max(0, x + (k % side) - halfKernel))
            IN  grayscale[newY * width + newX]]

\* window.sort((a, b) => a - b); window[Math.floor(window.length / 2)]
MedianOf(window) ==
    LET mid == Cardinality(DOMAIN window) \div 2
    IN  CHOOSE m \in {window[k] : k \in DOMAIN window} :
            /\ Cardinality({k \in DOMAIN window : window[k] < m}) <= mid
            /\ Cardinality({k \in DOMAIN window : window[k] <= m}) > mid

applyMedianFilter(grayscale, width, height, kernelSize) ==
    [i \in DOMAIN grayscale |->
        IF i < width * height
        THEN MedianOf(MedianWindow(grayscale, width, height, i % width, i \div width,
                                   kernelSize \div 2))
        ELSE 0]

sharpenKernel == <<<<0, -1, 0>>, <<-1, 5, -1>>, <<0, -1, 0>>>>

\* sum at the interior pixel i
SharpenSum(grayscale, width, i) ==
    Sum([k \in 0..8 |->
            grayscale[((i \div width) + (k \div 3) - 1) * width + ((i % width) + (k % 3) - 1)]
            * sharpenKernel[(k \div 3) + 1][(k % 3) + 1]], 0, 8)

\* the interior is convolved and clamped, the border copied from the source
applySharpening(grayscale, width, height) ==
    [i \in DOMAIN grayscale |->
        IF i >= width * height THEN 0
        ELSE IF Interior(width, height, i)
        THEN Max(0, Min(255, SharpenSum(grayscale, width, i)))
        ELSE grayscale[i]]

(***************************************************************************)
(* The operations of the core and the objects they touch.                  *)
(*                                                                         *)
(* frCall holds one call: the operation, its scalar arguments and the      *)
(* contents of its object arguments as passed.  frHeap maps the name of    *)
(* each object to its contents now: "input" is the caller's buffer,        *)
(* picture or matrix A, "b" the caller's vector, "result" the object the   *)
(* call allocated.  frRet names the object returned ("null" for none).     *)
(***************************************************************************)
Allocate(heap, object, value) ==
    [o \in DOMAIN heap \cup {object} |-> IF o = object THEN value ELSE heap[o]]

Return(object) == frRet' = [object |-> object]

FrameCalled(op) == frCall.op = op /\ frRet = Idle

FrameCLAHE ==
    /\ FrameCalled("applyCLAHE")
    /\ frLocal' = IF ClaheSkipped(frCall.width, frCall.height, frCall.options) THEN Null
                  ELSE CdfMaps(frHeap.input, frCall.width, frCall.height, frCall.options)
    /\ LET call == applyCLAHE(frHeap.input, frCall.width, frCall.height, frCall.options, frLocal')
       IN  IF call.returned = "grayscale"
           THEN UNCHANGED frHeap /\ Return("input")
           ELSE frHeap' = Allocate(frHeap, "result", call.buffer) /\ Return("result")
    /\ UNCHANGED frCall

FrameMedian ==
    /\ FrameCalled("applyMedianFilter")
    /\ frHeap' = Allocate(frHeap, "result",
                          applyMedianFilter(frHeap.input, frCall.width, frCall.height, 3))
    /\ Return("result")
    /\ UNCHANGED <<frCall, frLocal>>

\* the sharpened picture written over the source
FrameSharpenInPlace ==
    /\ FrameCalled("applySharpening")
    /\ frHeap' = [frHeap EXCEPT !.input = applySharpening(frHeap.input, frCall.width, frCall.height)]
    /\ Return("input")
    /\ UNCHANGED <<frCall, frLocal>>

FrameSharpen ==
    /\ FrameCalled("applySharpening")
    /\ frHeap' = Allocate(frHeap, "result",
                          applySharpening(frHeap.input, frCall.width, frCall.height))
    /\ Return("result")
    /\ UNCHANGED <<frCall, frLocal>>

FrameThreshold ==
    /\ FrameCalled("applyAdaptiveThresholding")
    /\ frHeap' = Allocate(frHeap, "result",
                          applyAdaptiveThresholding(frHeap.input, frCall.width, frCall.height,
                                                    DefaultBlockSize, DefaultC))
    /\ Return("result")
    /\ UNCHANGED <<frCall, frLocal>>

FrameSobel ==
    /\ FrameCalled("sobel")
    /\ frHeap' = Allocate(frHeap, "result",
                          sobelResult(SobelLocals(frHeap.input, frCall.width, frCall.height)).edgeData)
    /\ Return("result")
    /\ UNCHANGED <<frCall, frLocal>>

FrameQuality ==
    /\ FrameCalled("analyzeImageQuality")
    /\ frHeap' = Allocate(frHeap, "result",
                          Report(frHeap.input, Locals(frHeap.input, frCall.options)))
    /\ Return("result")
    /\ UNCHANGED <<frCall, frLocal>>

\* solve from pivot column i on: the matrix it leaves and what it returns
RECURSIVE SolveFrom(_, _, _)
SolveFrom(M, i, n) ==
    IF i >= n THEN [A |-> M, x |-> [x |-> [k \in 0..(n - 1) |-> M[k][n]]]]
    ELSE LET step == PivotStep(M, i, n)
         IN  IF step.singular THEN [A |-> step.A, x |-> Null]
             ELSE SolveFrom(step.A, i + 1, n)

\* solve works on the rows of the caller's A; x is a new array
FrameSolve ==
    /\ FrameCalled("solve")
    /\ LET n == Cardinality(DOMAIN frHeap.input)
           run == SolveFrom(Augment(frHeap.input, frHeap.b, n), 0, n)
       IN  IF run.x = Null
           THEN frHeap' = [frHeap EXCEPT !.input = run.A] /\ Return("null")
           ELSE /\ frHeap' = Allocate([frHeap EXCEPT !.input = run.A], "result", run.x.x)
                /\ Return("result")
    /\ UNCHANGED <<frCall, frLocal>>

FrameLevels == {0, 100, 255}
FrameSizes == {<<1, 1>>, <<3, 3>>, <<4, 3>>}
FrameBuffers ==
    UNION {{[width |-> sz[1], height |-> sz[2], grayscale |-> g] :
              g \in SparseBuffers(sz[1] * sz[2], FrameLevels, 1)} : sz \in FrameSizes}
FramePictures ==
    {Uniform(2, 2, Gray(128)), Uniform(4, 3, Gray(7)), Checker(4, 4, Gray(0), Gray(255)),
     Columns(3, 3, Gray(10), Gray(200))}
FrameSystems ==
    {[A |-> Matrix(<<<<e[1], e[2]>>, <<e[3], e[4]>>>>), b |-> Vector(v)] :
        e \in (0..2) \X (0..2) \X (0..2) \X (0..2), v \in {<<0, 0>>, <<3, -5>>}}

BufferCall(op, buf, options) ==
    [op |-> op, width |-> buf.width, height |-> buf.height, options |-> options,
     passed |-> [input |-> buf.grayscale]]

FrameCalls ==
    {BufferCall(op, buf, Null) :
        op \in {"applyMedianFilter", "applySharpening", "applyAdaptiveThresholding", "sobel"},
        buf \in FrameBuffers}
    \cup {BufferCall("applyCLAHE", buf, o) :
            buf \in FrameBuffers,
            o \in {[clipLimit |-> Undefined, gridSize |-> Undefined],
                   [clipLimit |-> Defined(RInt(2)), gridSize |-> Defined(RInt(2))]}}
    \cup {[op |-> "analyzeImageQuality", options |-> o, passed |-> [input |-> img]] :
            img \in FramePictures,
            o \in {[blurThreshold |-> Undefined, focusThreshold |-> Undefined]}}
    \cup {[op |-> "solve", passed |-> [input |-> s.A, b |-> s.b]] : s \in FrameSystems}

InitFrame ==
    /\ OcrIdle
    /\ IntegralIdle
    /\ BoxIdle
    /\ PerspectiveIdle
    /\ SolveIdle
    /\ ClaheIdle
    /\ SobelIdle
    /\ CropIdle
    /\ ThrIdle
    /\ QualityIdle
    /\ SharpIdle
    /\ frCall \in FrameCalls
    /\ frHeap = frCall.passed
    /\ frLocal = Idle
    /\ frRet = Idle

NextFrame ==
    (FrameCLAHE \/ FrameMedian \/ FrameSharpen \/ FrameThreshold \/ FrameSobel
        \/ FrameQuality \/ FrameSolve)
    /\ UNCHANGED <<cropVars, thrVars, qVars, shVars, sobVars, claheVars, solVars, ptVars, boxVars, iiVars, ocrVars>>

SpecFrame == InitFrame /\ [][NextFrame]_vars

Returned == frRet # Idle
ArgumentsKept == \A o \in DOMAIN frCall.passed : frHeap[o] = frCall.passed[o]
ResultIsNew == frRet.object \notin DOMAIN frCall.passed

\* C18: after each of the seven operations returns, every argument
\* object (buffer, picture, matrix A, vector b) holds the values it was
\* passed with, and the object returned is none of the arguments.
C18_ArgumentsKeptResultNew == Returned => ArgumentsKept /\ ResultIsNew

\* C18 (amended): so it is for all the operations but two.  applyCLAHE
\* returns its input buffer itself, unchanged, when a tile would be smaller
\* than one pixel, and a new buffer otherwise.  solve keeps b and returns a
\* new array or null, but works on the caller's matrix: every row of A ends
\* with one entry more than it was passed with.
C18_FrameButClaheSkipAndSolve ==
    Returned =>
        /\ frCall.op # "solve" => ArgumentsKept
        /\ frCall.op \notin {"applyCLAHE", "solve"} => frRet.object = "result"
        /\ frCall.op = "applyCLAHE" =>
              frRet.object = (IF frCall.width \div ClaheGridSize(frCall.options) = 0
                                 \/ frCall.height \div ClaheGridSize(frCall.options) = 0
                              THEN "input" ELSE "result")
        /\ frCall.op = "solve" =>
              /\ frHeap.b = frCall.passed.b
              /\ ResultIsNew
              /\ \A i \in DOMAIN frHeap.input :
                    DOMAIN frHeap.input[i] = 0..Cardinality(DOMAIN frCall.passed.input)

\* solve has returned a solution and left A changed
C18_Witness ==
    /\ Returned
    /\ frCall.op = "solve"
    /\ frRet.object = "result"
    /\ frHeap.input # frCall.passed.input
    /\ frHeap.b = frCall.passed.b

\* some three of the four source points lie on one line
ThreeCollinear(sp) ==
    \/ Collinear(sp.tl, sp.tr, sp.br)
    \/ Collinear(sp.tl, sp.tr, sp.bl)
    \/ Collinear(sp.tl, sp.br, sp.bl)
    \/ Collinear(sp.tr, sp.br, sp.bl)

\* C21: when any three of the four source points tl, tr, br, bl are
\* collinear, the call rejects and resolves no picture.
C21_ThreeCollinearRejected ==
    ptPc = "done" /\ ThreeCollinear(ptIn.sourcePoints) =>
        /\ Len(ptOut) = 1
        /\ IsRejection(ptOut[1])

\* the destination pixels the loop has passed, and their coordinates
PtProcessed == IF ptPc \in {"pixels", "done"} /\ ptDest # Idle THEN 0..(ptLocal.next - 1) ELSE {}
PtU(k) == k % ptLocal.outputWidth
PtV(k) == k \div ptLocal.outputWidth

\* the mapped source coordinate of pixel k is finite and lies in
\* [0, sourceWidth - 1) x [0, sourceHeight - 1)
InsideSamplingRange(k) ==
    LET h == ptLocal.h.x
    IN  /\ Denominator(h, PtU(k), PtV(k)).n # 0
        /\ SourceX(h, PtU(k), PtV(k)).n >= 0
        /\ RLess(SourceX(h, PtU(k), PtV(k)), RInt(ptIn.image.width - 1))
        /\ SourceY(h, PtU(k), PtV(k)).n >= 0
        /\ RLess(SourceY(h, PtU(k), PtV(k)), RInt(ptIn.image.height - 1))

\* the source byte of pixel (x, y) on a channel, and whether it exists
SourceIndex(x, y, channel) == (y * ptIn.image.width + x) * 4 + channel
SourceByte(x, y, channel) == RInt(ptIn.image.data[SourceIndex(x, y, channel)])

\* the bilinear interpolation of the four neighbours of (x, y), as stored
Bilinear(x, y, channel) ==
    LET x0 == RFloor(x)
        y0 == RFloor(y)
        fx == RSub(x, RInt(x0))
        fy == RSub(y, RInt(y0))
        top == RAdd(RMul(SourceByte(x0, y0, channel), RSub(RInt(1), fx)),
                    RMul(SourceByte(x0 + 1, y0, channel), fx))
        bottom == RAdd(RMul(SourceByte(x0, y0 + 1, channel), RSub(RInt(1), fx)),
                       RMul(SourceByte(x0 + 1, y0 + 1, channel), fx))
    IN  ToUint8Clamped(RAdd(RMul(top, RSub(RInt(1), fy)), RMul(bottom, fy)))

\* C22: a destination pixel whose source coordinate (x, y) has
\* 0 <= x < sourceWidth - 1 and 0 <= y < sourceHeight - 1 holds, on each
\* channel, the bilinear interpolation of the source pixels at floor(x),
\* floor(x) + 1 and floor(y), floor(y) + 1, all inside the source buffer;
\* any other pixel, a zero denominator included, stays (0, 0, 0, 0).
C22_SampledOrTransparent ==
    \A k \in PtProcessed :
        LET x == SourceX(ptLocal.h.x, PtU(k), PtV(k))
            y == SourceY(ptLocal.h.x, PtU(k), PtV(k))
        IN  IF InsideSamplingRange(k)
            THEN \A channel \in 0..3 :
                    /\ \A dx \in 0..1, dy \in 0..1 :
                          SourceIndex(RFloor(x) + dx, RFloor(y) + dy, channel)
                              \in DOMAIN ptIn.image.data
                    /\ ptDest[4 * k + channel] = Bilinear(x, y, channel)
            ELSE \A channel \in 0..3 : ptDest[4 * k + channel] = 0

\* one pixel of the picture had a zero denominator and another was
\* interpolated between source pixels
C22_Witness ==
    /\ ptPc = "done"
    /\ \E k \in PtProcessed : Denominator(ptLocal.h.x, PtU(k), PtV(k)).n = 0
    /\ \E k \in PtProcessed :
          /\ InsideSamplingRange(k)
          /\ \/ SourceX(ptLocal.h.x, PtU(k), PtV(k)).d > 1
             \/ SourceY(ptLocal.h.x, PtU(k), PtV(k)).d > 1
          /\ \E channel \in 0..3 : ptDest[4 * k + channel] # 0

(***************************************************************************)
(* findBoundingBox: the four scans and the result                          *)
(***************************************************************************)
\* the line counted pixel by pixel: more than a tenth of its pixels have an
\* edge value over 50
RowOver(e, y) ==
    10 * Cardinality({x \in 0..(e.width - 1) : EdgeAt(e, x, y) > 50}) > e.width
ColOver(e, x) ==
    10 * Cardinality({y \in 0..(e.height - 1) : EdgeAt(e, x, y) > 50}) > e.height

\* bound is where a scan of the indices lo..hi stops, going up the indices
\* (step 1) or down (step -1), at the first line satisfying Over; -1 if none
ScanStops(bound, lo, hi, step, Over(_)) ==
    IF \E i \in lo..hi : Over(i)
    THEN /\ bound \in lo..hi
         /\ Over(bound)
         /\ \A i \in lo..hi : step * i < step * bound => ~Over(i)
    ELSE bound = -1

\* C23: top (bottom) is the first row, scanning downward (upward), in which
\* the fraction of pixels with an edge value over 50 is strictly greater
\* than 0.10, left (right) the first such column scanning rightward
\* (leftward); the result is null exactly when a bound is unset or
\* right <= left or bottom <= top, and otherwise it is
\* {x: left, y: top, width: right - left, height: bottom - top}.
C23_ScansAndNull ==
    boxOut # Idle =>
        LET b == boxOut.bounds
            RowIsOver(y) == RowOver(boxIn, y)
            ColIsOver(x) == ColOver(boxIn, x)
        IN  /\ ScanStops(b.top, 0, boxIn.height - 1, 1, RowIsOver)
            /\ ScanStops(b.bottom, 0, boxIn.height - 1, -1, RowIsOver)
            /\ ScanStops(b.left, 0, boxIn.width - 1, 1, ColIsOver)
            /\ ScanStops(b.right, 0, boxIn.width - 1, -1, ColIsOver)
            /\ boxOut.box = Null <=>
                  \/ b.top = -1 \/ b.bottom = -1 \/ b.left = -1 \/ b.right = -1
                  \/ b.right <= b.left \/ b.bottom <= b.top
            /\ boxOut.box # Null =>
                  boxOut.box = [x |-> b.left, y |-> b.top,
                                width |-> b.right - b.left,
                                height |-> b.bottom - b.top]

\* a vertical line over the threshold in a map ten pixels wide: each of its
\* rows has exactly a tenth of its pixels over 50, so no row bound is set
\* while both column bounds are, and the result is null
C23_Witness ==
    /\ boxOut # Idle
    /\ boxIn.width = 10 /\ boxIn.L = boxIn.R /\ boxIn.T < boxIn.B /\ boxIn.v > 50
    /\ boxOut.bounds.top = -1 /\ boxOut.bounds.bottom = -1
    /\ boxOut.bounds.left = boxIn.L /\ boxOut.bounds.right = boxIn.L
    /\ boxOut.box = Null

\* C29: top is set if and only if bottom is, and then top <= bottom; left is
\* set if and only if right is, and then left <= right; a bound that is set
\* is a row index below height, or a column index below width.
C29_BoundsPaired ==
    boxOut # Idle =>
        LET b == boxOut.bounds IN
        /\ b.top # -1 <=> b.bottom # -1
        /\ b.left # -1 <=> b.right # -1
        /\ b.top # -1 => b.top <= b.bottom
        /\ b.left # -1 => b.left <= b.right
        /\ {b.top, b.bottom} \subseteq -1..(boxIn.height - 1)
        /\ {b.left, b.right} \subseteq -1..(boxIn.width - 1)

\* only row 0 is dense, so both row scans stop there, and the column scans
\* stop at different columns
C29_Witness ==
    /\ boxOut # Idle
    /\ boxOut.bounds.top = 0 /\ boxOut.bounds.bottom = 0
    /\ boxOut.bounds.left # -1 /\ boxOut.bounds.left < boxOut.bounds.right

(***************************************************************************)
(* applyCLAHE: the clipped histogram and the CDF of each tile              *)
(***************************************************************************)
ClaheTileWidth == claheIn.width \div ClaheGrid
ClaheTileHeight == claheIn.height \div ClaheGrid
ClaheTilePixels == ClaheTileWidth * ClaheTileHeight
ClaheClipLimit == Coalesce(claheIn.options.clipLimit, DefaultClipLimit)

\* the histogram of tile (gridX, gridY) as counted
TileHistogram(gridX, gridY) ==
    calculateTileHistogram(claheIn.grayscale, claheIn.width,
                           gridX * ClaheTileWidth, gridY * ClaheTileHeight,
                           ClaheTileWidth, ClaheTileHeight)

\* histogram[i], the content of bin i
BinAt(histogram, i) ==
    IF i \in DOMAIN histogram.bins THEN histogram.bins[i] ELSE histogram.each

\* The bins between two levels that occur in the tile all hold the same
\* content, so the CDF is a straight line there: it is looked at where a run
\* starts or ends, that is at bin 0, at bin 255, at every level that occurs
\* and at the bins next to it.
RunEnds(histogram) ==
    ({0, 255} \cup UNION {{v - 1, v, v + 1} : v \in DOMAIN histogram.bins}) \cap 0..255

\* the entries of the array calculateCDF returns at those bins and at the
\* levels step 2 reads
TileCDF(histogram, levels) ==
    calculateCDF(histogram, ClaheTilePixels, RunEnds(histogram) \cup levels)

\* C24: for every tile, the histogram after clipping at
\* clipLimit * (tilePixelCount / 256) and redistributing the excess over the
\* 256 bins still adds up to tilePixelCount; the CDF of the tile never
\* decreases (no bin is negative, and the CDF does not decrease from one
\* run end to the next), lies in [0, 1] and is 1 at bin 255.
C24_TotalPreserved ==
    claheOut # Idle /\ ~ClaheSkips =>
        \A gridX \in 0..(ClaheGrid - 1), gridY \in 0..(ClaheGrid - 1) :
            LET histogram == claheLocal.histograms[gridY][gridX]
                cdf == TileCDF(histogram, DOMAIN claheLocal.cdfMaps[gridY][gridX])
            IN  /\ Cumulative(histogram, 255) = RInt(ClaheTilePixels)
                /\ \A i \in 0..255 : ~RLess(BinAt(histogram, i), RInt(0))
                /\ \A i, j \in DOMAIN cdf : i < j => ~RLess(cdf[j], cdf[i])
                /\ \A i \in DOMAIN cdf : ~RLess(cdf[i], RInt(0)) /\ ~RLess(RInt(1), cdf[i])
                /\ cdf[255] = RInt(1)
                /\ \A v \in DOMAIN claheLocal.cdfMaps[gridY][gridX] :
                        claheLocal.cdfMaps[gridY][gridX][v] = cdf[v]

\* a tile in which one bin is over the clip limit and another non-empty bin
\* is not
C24_Witness ==
    /\ claheOut # Idle /\ ~ClaheSkips
    /\ \E gridX \in 0..(ClaheGrid - 1), gridY \in 0..(ClaheGrid - 1) :
          LET bins == TileHistogram(gridX, gridY).bins
              actualClipLimit == RMul(ClaheClipLimit, Frac(ClaheTilePixels, 256))
          IN  /\ \E i \in DOMAIN bins : RLess(actualClipLimit, bins[i])
              /\ \E i \in DOMAIN bins : ~RLess(actualClipLimit, bins[i])

(***************************************************************************)
(* analyzeImageQuality: what the options reach, and the report without tips *)
(***************************************************************************)
\* the fields of a report other than isBlurry, isOutOfFocus and tips
OptionFrame(report) ==
    [f \in DOMAIN report \ {"isBlurry", "isOutOfFocus", "tips"} |-> report[f]]

\* the report of the same picture under other options
ReportUnder(options) == Report(qIn.imageData, Locals(qIn.imageData, options))

\* C26: the reports of one picture under any two option values agree on the
\* overall score, the four component scores, every raw metric value and
\* every flag other than isBlurry and isOutOfFocus: the report returned
\* agrees on them with the report under each of the other option values.
C26_OptionsReachSharpFlagsOnly ==
    QReturned =>
        \A options \in QualityOptions :
            OptionFrame(qOut) = OptionFrame(ReportUnder(options))

\* the slider at its minimum clears the flag and the tip that the defaults
\* give the picture, whose sharpness score is not 0
C26_Witness ==
    /\ QReturned
    /\ qIn.options.blurThreshold = Defined(RInt(SliderMin))
    /\ ~qOut.isBlurry /\ ReportUnder(DefaultOptions).isBlurry
    /\ qOut.tips # ReportUnder(DefaultOptions).tips
    /\ qOut.sharpnessScore > 0

\* C27: a report with an empty tips list has overallQualityScore >= 90; a
\* report whose overall score is below 90 has at least one tip.
C27_NoTipsMeansGood ==
    QReturned =>
        /\ Len(qOut.tips) = 0 => qOut.overallQualityScore >= 90
        /\ qOut.overallQualityScore < 90 => Len(qOut.tips) >= 1

C27_Witness ==
    /\ QReturned
    /\ Len(qOut.tips) = 0
    /\ qOut.overallQualityScore \in 90..99

\* the pixels all have one colour
IsUniform(img) == \A c, d \in Cells(img) : img.tile[c] = img.tile[d]

\* C28: for every picture whose pixels all have the same colour, gray or
\* not, calculateLuminanceAndStdDev returns stdDev = 0 and the report has
\* contrastValue 0.
C28_UniformNoContrast ==
    QReturned /\ IsUniform(qIn.imageData) =>
        /\ qLocal.raw.contrastValue = RInt(0)
        /\ qOut.contrastValue = RInt(0)

(***************************************************************************)
(* applyAdaptiveThresholding: the integral image of a large picture        *)
(*                                                                         *)
(* The pictures are of one level, so the inner loop has brought rowSum to  *)
(* level * (x + 1) when it reaches column x.  The outer loop is followed   *)
(* row by row at one column x.  A sum is kept in two halves,               *)
(* hi * 65536 + lo; an entry of the Uint32Array has hi < 65536.            *)
(***************************************************************************)
Big(n) == [hi |-> n \div Uint32Half, lo |-> n % Uint32Half]
BigAdd(a, b) ==
    [hi |-> a.hi + b.hi + ((a.lo + b.lo) \div Uint32Half),
     lo |-> (a.lo + b.lo) % Uint32Half]
\* a * k for 0 <= k < 32768
BigScale(a, k) ==
    [hi |-> a.hi * k + ((a.lo * k) \div Uint32Half), lo |-> (a.lo * k) % Uint32Half]
BigLess(a, b) == a.hi < b.hi \/ (a.hi = b.hi /\ a.lo < b.lo)

\* a store that keeps 31 bits
StoreInt31(a) == [hi |-> a.hi % (Uint32Half \div 2), lo |-> a.lo]

\* integralImage[index] = v : the value modulo 2^32
StoreUint32(a) == [hi |-> a.hi % Uint32Half, lo |-> a.lo]

\* one turn of the outer loop, at column x:
\* integralImage[y * width + x] = rowSum (+ integralImage[(y - 1) * width + x])
IntegralRow ==
    /\ iiIn # Idle
    /\ iiY < iiIn.height
    /\ LET rowSumAtX == iiIn.level * (iiIn.x + 1)
       IN  iiStored' = IF iiY = 0 THEN StoreUint32(Big(rowSumAtX))
                       ELSE StoreUint32(BigAdd(Big(rowSumAtX), iiStored))
    /\ iiY' = iiY + 1
    /\ UNCHANGED iiIn

\* a 4k picture, the smallest picture 4096 wide whose white sum passes 2^32,
\* and a small picture; at white and at two other levels; at the first and
\* the last column
MaxIntegralHeight == 4113
IntegralSizes == {<<4096, 2160>>, <<4096, MaxIntegralHeight>>, <<3, 2>>}
IntegralLevels == {1, 254, 255}
IntegralInputs ==
    UNION {{[width |-> sz[1], height |-> sz[2], level |-> v, x |-> x] :
                v \in IntegralLevels, x \in {0, sz[1] - 1}} : sz \in IntegralSizes}

InitIntegral ==
    /\ OcrIdle
    /\ FrameIdle
    /\ BoxIdle
    /\ PerspectiveIdle
    /\ SolveIdle
    /\ ClaheIdle
    /\ SobelIdle
    /\ CropIdle
    /\ ThrIdle
    /\ QualityIdle
    /\ SharpIdle
    /\ iiIn \in IntegralInputs
    /\ iiY = 0
    /\ iiStored = Big(0)

NextIntegral == IntegralRow /\ UNCHANGED <<cropVars, thrVars, qVars, shVars, sobVars, claheVars, solVars, ptVars, boxVars, frVars, ocrVars>>

SpecIntegral == InitIntegral /\ [][NextIntegral]_vars

\* width * height * 255 < 2^32
SumFitsUint32(width, height) ==
    BigLess(BigScale(Big(width * height), 255), [hi |-> Uint32Half, lo |-> 0])

\* the sum of the pixels of the rectangle from (0, 0) to (x, y) inclusive
RectangleSum(level, x, y) == BigScale(Big(level * (x + 1)), y + 1)

\* C30: whenever width * height * 255 < 2^32, every entry of the integral
\* image is the exact sum of the pixels in the rectangle from (0, 0) to
\* (x, y): no store into the Uint32Array wraps.
C30_NoWrapUnderLimit ==
    iiIn # Idle /\ iiY > 0 /\ SumFitsUint32(iiIn.width, iiIn.height) =>
        iiStored = RectangleSum(iiIn.level, iiIn.x, iiY - 1)

\* the last entry of the white 4096 x 2160 picture: 2 256 076 800
C30_Witness ==
    /\ iiIn # Idle
    /\ iiIn.width = 4096 /\ iiIn.height = 2160 /\ iiIn.level = 255 /\ iiIn.x = 4095
    /\ iiY = 2160
    /\ iiStored = [hi |-> 34425, lo |-> 0]

(***************************************************************************)
(* utils/imagePreprocessing.ts : preprocessImageForOCR                     *)
(*                                                                         *)
(* The executor only sets a timer; the work is the timer's callback, one   *)
(* try block.  The callback is followed stage by stage: ocrPc is "timer"   *)
(* until it starts, then the stage to run next, then "settled".  A buffer  *)
(* is kept as [buffer |-> ...] once its stage has returned, Null before.   *)
(* The environment says whether the two canvases give a 2d context and     *)
(* which stage, if any, fails to allocate its buffer (a RangeError).       *)
(***************************************************************************)
THUMBNAIL_WIDTH == 200

StageOrder == <<"grayscale", "clahe", "median", "sharpen", "binarize", "canvas", "thumbnail">>

NoBuffers ==
    [grayscaleData |-> Null, claheData |-> Null, noiseReducedData |-> Null,
     sharpenedData |-> Null, binaryData |-> Null, ocrOptimizedPng |-> Null]

OcrPixels == 0..(ocrIn.imageData.width * ocrIn.imageData.height - 1)

\* the options object handed to applyCLAHE
OcrClaheOptions ==
    [clipLimit |-> ocrIn.options.claheClipLimit, gridSize |-> ocrIn.options.claheGridSize]

\* options.binarizationConstantC ?? 7
OcrC ==
    IF ocrIn.options.binarizationConstantC.defined
    THEN ocrIn.options.binarizationConstantC.value ELSE DefaultC

\* canvas.toDataURL: the picture on the canvas, in the format asked for
DataURL(type, width, height, data) ==
    [type |-> type, width |-> width, height |-> height, data |-> data]

\* step 6: the RGBA picture made of the binary data
outputRgbaData(binaryData) ==
    [k \in 0..(4 * Cardinality(DOMAIN binaryData) - 1) |->
        IF k % 4 = 3 THEN 255 ELSE binaryData[k \div 4]]

\* catch (error) { reject(error) }
OcrCatch(error) ==
    /\ ocrOut' = Append(ocrOut, Rejected(error))
    /\ ocrPc' = "settled"
    /\ UNCHANGED ocrLocal

\* a stage starts when the one before it has returned
OcrStarts(stage) ==
    /\ ocrPc = stage
    /\ ocrStages' = Append(ocrStages, stage)
    /\ UNCHANGED ocrIn

\* the stage returns with its buffer, and the next one is due
OcrReturns(stage, local, next, buffer) ==
    IF ocrIn.env.throwsAt = stage THEN OcrCatch("RangeError")
    ELSE /\ ocrLocal' = [ocrLocal EXCEPT ![local] = [buffer |-> buffer]]
         /\ ocrPc' = next
         /\ UNCHANGED ocrOut

\* the timer fires and the callback starts
OcrTimer ==
    /\ ocrPc = "timer"
    /\ ocrPc' = "grayscale"
    /\ UNCHANGED <<ocrIn, ocrLocal, ocrStages, ocrOut>>

\* 1. grayscale
OcrGrayscale ==
    /\ OcrStarts("grayscale")
    /\ OcrReturns("grayscale", "grayscaleData", "clahe",
                  [i \in OcrPixels |-> ToUint8Clamped(Luminance(ocrIn.imageData.data[i]))])

\* 2. applyCLAHE(grayscaleData, ...)
OcrCLAHE ==
    /\ OcrStarts("clahe")
    /\ LET grayscaleData == ocrLocal.grayscaleData.buffer
           width == ocrIn.imageData.width
           height == ocrIn.imageData.height
           cdfMaps == IF ClaheSkipped(width, height, OcrClaheOptions) THEN Null
                      ELSE CdfMaps(grayscaleData, width, height, OcrClaheOptions)
       IN  OcrReturns("clahe", "claheData", "median",
                      applyCLAHE(grayscaleData, width, height, OcrClaheOptions, cdfMaps).buffer)

\* the median filter run on the grayscale buffer
OcrMedianOfGrayscale ==
    /\ OcrStarts("median")
    /\ OcrReturns("median", "noiseReducedData", "sharpen",
                  applyMedianFilter(ocrLocal.grayscaleData.buffer, ocrIn.imageData.width,
                                    ocrIn.imageData.height, 3))

\* 3. applyMedianFilter(claheData, width, height, 3)
OcrMedian ==
    /\ OcrStarts("median")
    /\ OcrReturns("median", "noiseReducedData", "sharpen",
                  applyMedianFilter(ocrLocal.claheData.buffer, ocrIn.imageData.width,
                                    ocrIn.imageData.height, 3))

\* 4. applySharpening(noiseReducedData, width, height)
OcrSharpen ==
    /\ OcrStarts("sharpen")
    /\ OcrReturns("sharpen", "sharpenedData", "binarize",
                  applySharpening(ocrLocal.noiseReducedData.buffer, ocrIn.imageData.width,
                                  ocrIn.imageData.height))

\* 5. applyAdaptiveThresholding(sharpenedData, width, height, 21, C)
OcrBinarize ==
    /\ OcrStarts("binarize")
    /\ OcrReturns("binarize", "binaryData", "canvas",
                  applyAdaptiveThresholding(ocrLocal.sharpenedData.buffer, ocrIn.imageData.width,
                                            ocrIn.imageData.height, DefaultBlockSize, OcrC))

\* 6 and 7: the RGBA picture, the canvas and the PNG
OcrCanvas ==
    /\ OcrStarts("canvas")
    /\ IF ocrIn.env.throwsAt = "canvas" THEN OcrCatch("RangeError")
       ELSE IF ~ocrIn.env.ctx
       THEN OcrCatch("Could not get canvas context for preprocessing.")
       ELSE /\ ocrLocal' =
                  [ocrLocal EXCEPT !.ocrOptimizedPng =
                      DataURL("image/png", ocrIn.imageData.width, ocrIn.imageData.height,
                              outputRgbaData(ocrLocal.binaryData.buffer))]
            /\ ocrPc' = "thumbnail"
            /\ UNCHANGED ocrOut

\* the thumbnail canvas, the JPEG and resolve
OcrThumbnail ==
    /\ OcrStarts("thumbnail")
    /\ IF ~ocrIn.env.thumbCtx
       THEN OcrCatch("Could not get canvas context for thumbnail.")
       ELSE /\ ocrOut' = Append(ocrOut,
                  [resolved |->
                      [ocrOptimizedPng |-> ocrLocal.ocrOptimizedPng,
                       thumbnailJpeg |->
                          DataURL("image/jpeg", THUMBNAIL_WIDTH,
                                  (THUMBNAIL_WIDTH * ocrIn.imageData.height)
                                      \div ocrIn.imageData.width,
                                  ocrLocal.ocrOptimizedPng.data)]])
            /\ ocrPc' = "settled"
            /\ UNCHANGED ocrLocal

\* pictures of 3 x 3 and 2 x 2 pixels: a first column of one colour, the rest
\* of another, and one pixel of a third
OcrColours == {Gray(0), Gray(255), PureBlue}
OcrSides == {2, 3}
OcrPictures ==
    UNION {{[width |-> n, height |-> n,
             data |-> [i \in 0..(n * n - 1) |->
                         IF i = k THEN c ELSE IF i % n = 0 THEN a ELSE b]] :
                a \in OcrColours, b \in OcrColours, c \in OcrColours, k \in 0..(n * n - 1)} :
           n \in OcrSides}

\* no option, every option, and a grid of four tiles
OcrOptions ==
    {[binarizationConstantC |-> Undefined, claheClipLimit |-> Undefined, claheGridSize |-> Undefined],
     [binarizationConstantC |-> [defined |-> TRUE, value |-> 0],
      claheClipLimit |-> Defined(Frac(5, 2)), claheGridSize |-> Defined(RInt(1))],
     [binarizationConstantC |-> Undefined, claheClipLimit |-> Undefined,
      claheGridSize |-> Defined(RInt(2))]}

NothingFails == [throwsAt |-> "none", ctx |-> TRUE, thumbCtx |-> TRUE]
OcrFailures ==
    {[throwsAt |-> s, ctx |-> TRUE, thumbCtx |-> TRUE] :
        s \in {"grayscale", "clahe", "median", "sharpen", "binarize", "canvas"}}
    \cup {[throwsAt |-> "none", ctx |-> FALSE, thumbCtx |-> TRUE],
          [throwsAt |-> "none", ctx |-> TRUE, thumbCtx |-> FALSE]}

\* every picture with nothing failing, and each failure on the pictures that
\* have a white pixel in the last place
OcrInputs ==
    {[imageData |-> p, options |-> o, env |-> NothingFails] :
        p \in OcrPictures, o \in OcrOptions}
    \cup {[imageData |-> p, options |-> o, env |-> e] :
            p \in {q \in OcrPictures :
                      /\ q.data[0] = Gray(0) /\ q.data[1] = Gray(0)
                      /\ q.data[q.width * q.height - 1] = Gray(255)},
            o \in OcrOptions, e \in OcrFailures}

InitOcr ==
    /\ IntegralIdle
    /\ FrameIdle
    /\ BoxIdle
    /\ PerspectiveIdle
    /\ SolveIdle
    /\ ClaheIdle
    /\ SobelIdle
    /\ CropIdle
    /\ ThrIdle
    /\ QualityIdle
    /\ SharpIdle
    /\ ocrPc = "timer"
    /\ ocrIn \in OcrInputs
    /\ ocrLocal = NoBuffers
    /\ ocrStages = <<>>
    /\ ocrOut = <<>>

NextOcr ==
    (OcrTimer \/ OcrGrayscale \/ OcrCLAHE \/ OcrMedian \/ OcrSharpen \/ OcrBinarize
        \/ OcrCanvas \/ OcrThumbnail)
    /\ UNCHANGED <<cropVars, thrVars, qVars, shVars, sobVars, claheVars, solVars, ptVars, boxVars, frVars, iiVars>>

SpecOcr == InitOcr /\ [][NextOcr]_vars

\* the positions of the call: waiting for the timer, due to start a stage or a
\* canvas step, settled
OcrPositions == {"timer", "settled"} \cup {StageOrder[k] : k \in DOMAIN StageOrder}

\* the call leaves the position it is at (every step of NextOcr does)
OcrLeaves == ocrPc # "settled" /\ ocrPc' \in OcrPositions

\* the timer fires, and the callback, once started, runs to its end: the call
\* does not stay for ever at a position other than "settled"
FairOcr == SpecOcr /\ WF_ocrPc(OcrLeaves)

\* the local that holds the output of each of the five stages
StageBuffer ==
    <<"grayscaleData", "claheData", "noiseReducedData", "sharpenedData", "binaryData">>

IsPrefix(s, t) == Len(s) <= Len(t) /\ \A i \in 1..Len(s) : s[i] = t[i]

\* the stages started so far are the first stages of the order, a stage has
\* started only when the stage before it has returned its buffer, and no
\* buffer exists whose stage has not started
OcrInOrder ==
    /\ IsPrefix(ocrStages, StageOrder)
    /\ \A k \in 2..Len(ocrStages) : k - 1 <= 5 => ocrLocal[StageBuffer[k - 1]] # Null
    /\ \A k \in 1..5 : ocrLocal[StageBuffer[k]] # Null => Len(ocrStages) >= k

\* each stage has worked on the output of the stage before it
OcrDataFlow ==
    LET width == ocrIn.imageData.width
        height == ocrIn.imageData.height
    IN  /\ ocrLocal.grayscaleData # Null =>
              ocrLocal.grayscaleData.buffer =
                  [i \in OcrPixels |-> ToUint8Clamped(Luminance(ocrIn.imageData.data[i]))]
        /\ ocrLocal.claheData # Null =>
              ocrLocal.claheData.buffer =
                  applyCLAHE(ocrLocal.grayscaleData.buffer, width, height, OcrClaheOptions,
                             IF ClaheSkipped(width, height, OcrClaheOptions) THEN Null
                             ELSE CdfMaps(ocrLocal.grayscaleData.buffer, width, height,
                                          OcrClaheOptions)).buffer
        /\ ocrLocal.noiseReducedData # Null =>
              ocrLocal.noiseReducedData.buffer =
                  applyMedianFilter(ocrLocal.claheData.buffer, width, height, 3)
        /\ ocrLocal.sharpenedData # Null =>
              ocrLocal.sharpenedData.buffer =
                  applySharpening(ocrLocal.noiseReducedData.buffer, width, height)
        /\ ocrLocal.binaryData # Null =>
              ocrLocal.binaryData.buffer =
                  applyAdaptiveThresholding(ocrLocal.sharpenedData.buffer, width, height,
                                            21, OcrC)

\* at most one settlement; a resolution comes after all the stages and holds
\* the two encoded pictures; a rejection comes from the stage or canvas step
\* that threw, which is the last that started
OcrSettlement ==
    /\ Len(ocrOut) <= 1
    /\ (ocrPc = "settled") <=> (Len(ocrOut) = 1)
    /\ \A k \in DOMAIN ocrOut :
          IF IsResolution(ocrOut[k])
          THEN /\ ocrStages = StageOrder
               /\ ocrIn.env = NothingFails
               /\ ocrOut[k].resolved.ocrOptimizedPng =
                      DataURL("image/png", ocrIn.imageData.width, ocrIn.imageData.height,
                              outputRgbaData(ocrLocal.binaryData.buffer))
               /\ ocrOut[k].resolved.thumbnailJpeg.type = "image/jpeg"
          ELSE /\ IsRejection(ocrOut[k])
               /\ ocrIn.env # NothingFails
               /\ ocrStages[Len(ocrStages)] =
                      IF ocrIn.env.throwsAt # "none" THEN ocrIn.env.throwsAt
                      ELSE IF ~ocrIn.env.ctx THEN "canvas" ELSE "thumbnail"

\* C25: the stages run in the order grayscale, CLAHE, median filter, sharpen,
\* adaptive binarize, each starting after the one before it has returned and
\* working on that stage's output; the promise settles exactly once: it
\* resolves, after the last stage, with the encoded outputs, or it rejects
\* because a stage or a canvas step threw, and never both.
C25_StagesInOrderSettleOnce ==
    /\ [](OcrInOrder /\ OcrDataFlow /\ OcrSettlement)
    /\ <>(Len(ocrOut) = 1)

\* a resolved call in which every stage changed the picture it was given
C25_Witness ==
    /\ ocrPc = "settled"
    /\ IsResolution(ocrOut[1])
    /\ ocrLocal.claheData # ocrLocal.grayscaleData
    /\ ocrLocal.noiseReducedData # ocrLocal.claheData
    /\ ocrLocal.sharpenedData # ocrLocal.noiseReducedData
    /\ ocrLocal.binaryData # ocrLocal.sharpenedData

====
